---------------------------- MODULE Spec2Model ----------------------------
(***************************************************************************)
(* Verification model of the hyperbolic categorization engine              *)
(* (packages/categorization) and of the classifier singleton of the API    *)
(* service (apps/api/domains/categorization/service.py).                   *)
(*                                                                         *)
(* Texts are TLA+ strings and the cleaning and rule regexes are evaluated  *)
(* character by character.  Real numbers are fixed-point integers in       *)
(* units of 1/Q; vectors are sequences of such integers.                   *)
(***************************************************************************)
EXTENDS Integers, Sequences, FiniteSets, TLC

(***************************************************************************)
(* Characters and strings                                                  *)
(***************************************************************************)
LowerSeq == "abcdefghijklmnopqrstuvwxyz"

UpperSeq == "ABCDEFGHIJKLMNOPQRSTUVWXYZ"

DigitSeq == "0123456789"

Ch(s, i) == IF i >= 1 /\ i <= Len(s) THEN SubSeq(s, i, i) ELSE ""

CharsOf(s) == { SubSeq(s, i, i) : i \in 1..Len(s) }

LowerLetters == CharsOf(LowerSeq)

UpperLetters == CharsOf(UpperSeq)

Digits == CharsOf(DigitSeq)

\* \w of the re module restricted to the model's alphabet
WordChars == LowerLetters \cup UpperLetters \cup Digits \cup {"_"}

\* [\w\.-]
HandleChars == WordChars \cup {".", "-"}

\* \s restricted to the model's alphabet
Spaces == {" "}

PosIn(alphabet, c) == CHOOSE i \in 1..Len(alphabet) : SubSeq(alphabet, i, i) = c

\* str.upper() on one character
UpperCh(c) == IF c \in LowerLetters THEN Ch(UpperSeq, PosIn(LowerSeq, c)) ELSE c

\* str.lower() on one character
LowerCh(c) == IF c \in UpperLetters THEN Ch(LowerSeq, PosIn(UpperSeq, c)) ELSE c

RECURSIVE Upper(_)
\* str.upper()
Upper(s) == IF s = "" THEN "" ELSE UpperCh(Ch(s, 1)) \o Upper(SubSeq(s, 2, Len(s)))

RECURSIVE Lower(_)
\* str.lower()
Lower(s) == IF s = "" THEN "" ELSE LowerCh(Ch(s, 1)) \o Lower(SubSeq(s, 2, Len(s)))

\* s[i-1:].startswith(w), i counted from 1
HasPrefix(s, i, w) == i >= 1 /\ i + Len(w) - 1 <= Len(s) /\ SubSeq(s, i, i + Len(w) - 1) = w

\* w in s
Contains(s, w) == \E i \in 1..Len(s) : HasPrefix(s, i, w)

\* the regex assertion \b before the character at position i
Boundary(s, i) == (Ch(s, i - 1) \in WordChars) # (Ch(s, i) \in WordChars)

RECURSIVE RunLen(_, _, _)
\* length of the longest run of characters of class cls that starts at i
RunLen(cls, s, i) == IF Ch(s, i) \in cls THEN 1 + RunLen(cls, s, i + 1) ELSE 0

Min(a, b) == IF a <= b THEN a ELSE b

Max(a, b) == IF a >= b THEN a ELSE b

Abs(a) == IF a >= 0 THEN a ELSE -a

(***************************************************************************)
(* cleaner.clean_description                                               *)
(***************************************************************************)
\* \b(w1|w2|...)\b at position i: the length of the first alternative that matches
WordAltLen(words, s, i) ==
    LET hits == { k \in 1..Len(words) : HasPrefix(s, i, words[k]) /\ Boundary(s, i + Len(words[k])) }
    IN  IF Boundary(s, i) /\ hits # {}
        THEN Len(words[CHOOSE k \in hits : \A j \in hits : k <= j])
        ELSE 0

\* [\w\.-]+@[\w\.-]+
HandleLen(s, i) ==
    LET n == RunLen(HandleChars, s, i)
        m == RunLen(HandleChars, s, i + n + 1)
    IN  IF n >= 1 /\ Ch(s, i + n) = "@" /\ m >= 1 THEN n + 1 + m ELSE 0

\* UPI(?:-|\/)?\d+[\w]*
UpiRefLen(s, i) ==
    LET sep == IF Ch(s, i + 3) \in {"-", "/"} THEN 1 ELSE 0
        d   == RunLen(Digits, s, i + 3 + sep)
    IN  IF HasPrefix(s, i, "UPI") /\ d >= 1
        THEN 3 + sep + d + RunLen(WordChars, s, i + 3 + sep + d)
        ELSE 0

\* UPI\s*-?
UpiLen(s, i) ==
    LET w == RunLen(Spaces, s, i + 3)
    IN  IF HasPrefix(s, i, "UPI")
        THEN 3 + w + (IF Ch(s, i + 3 + w) = "-" THEN 1 ELSE 0)
        ELSE 0

PosWords == <<"POS", "ECOM", "ATM", "MPS", "IMPS", "NEFT", "RTGS", "ACH", "MBk", "WDL">>

\* \d{2}[-\/]\d{2}[-\/]\d{2,4}
DateLen(s, i) ==
    LET k == Min(RunLen(Digits, s, i + 6), 4)
    IN  IF /\ Ch(s, i) \in Digits /\ Ch(s, i + 1) \in Digits
           /\ Ch(s, i + 2) \in {"-", "/"}
           /\ Ch(s, i + 3) \in Digits /\ Ch(s, i + 4) \in Digits
           /\ Ch(s, i + 5) \in {"-", "/"}
           /\ k >= 2
        THEN 6 + k
        ELSE 0

\* \d{2}[A-Z]{3}
DayMonthLen(s, i) ==
    IF /\ Ch(s, i) \in Digits /\ Ch(s, i + 1) \in Digits
       /\ Ch(s, i + 2) \in UpperLetters /\ Ch(s, i + 3) \in UpperLetters
       /\ Ch(s, i + 4) \in UpperLetters
    THEN 5
    ELSE 0

\* \b\d{4,}\b
NumberLen(s, i) ==
    LET d == RunLen(Digits, s, i)
    IN  IF Boundary(s, i) /\ d >= 4 /\ Boundary(s, i + d) THEN d ELSE 0

GenericWords ==
    <<"TXN", "REF", "ID", "NO", "TRANSFER", "PAYMENT", "TO", "BY", "FROM", "BILL", "IN", "VIA">>

\* the length of the match of pattern rx that starts at position i, 0 when none does
MatchLen(rx, s, i) ==
    CASE rx = "separator" -> IF Ch(s, i) \in {"*", "-", "_"} THEN 1 ELSE 0
      [] rx = "handle"    -> HandleLen(s, i)
      [] rx = "upiref"    -> UpiRefLen(s, i)
      [] rx = "upi"       -> UpiLen(s, i)
      [] rx = "pos"       -> WordAltLen(PosWords, s, i)
      [] rx = "date"      -> DateLen(s, i)
      [] rx = "daymonth"  -> DayMonthLen(s, i)
      [] rx = "number"    -> NumberLen(s, i)
      [] rx = "generic"   -> WordAltLen(GenericWords, s, i)
      [] rx = "special"   -> IF Ch(s, i) \notin (UpperLetters \cup Spaces) THEN 1 ELSE 0
      [] rx = "spaces"    -> RunLen(Spaces, s, i)

RECURSIVE SubFrom(_, _, _, _)
\* re.sub(rx, repl, s), scanning from position i: leftmost non-overlapping matches
SubFrom(rx, repl, s, i) ==
    IF i > Len(s) THEN ""
    ELSE LET n == MatchLen(rx, s, i)
         IN  IF n > 0
             THEN repl \o SubFrom(rx, repl, s, i + n)
             ELSE Ch(s, i) \o SubFrom(rx, repl, s, i + 1)

Sub(rx, repl, s) == SubFrom(rx, repl, s, 1)

\* str.strip() of a text whose whitespace runs are already single spaces
Strip(s) ==
    LET a == IF Ch(s, 1) = " " THEN 2 ELSE 1
        b == IF Ch(s, Len(s)) = " " THEN Len(s) - 1 ELSE Len(s)
    IN  IF a > b THEN "" ELSE SubSeq(s, a, b)

clean_description(text) ==
    IF text = "" THEN ""
    ELSE Strip(Sub("spaces", " ",
           Sub("special", " ",
             Sub("generic", "",
               Sub("number", "",
                 Sub("daymonth", "", Sub("date", "",
                   Sub("pos", "",
                     Sub("upi", "", Sub("upiref", "",
                       Sub("handle", "",
                         Sub("separator", " ", Upper(text)))))))))))))

(***************************************************************************)
(* rules.KeywordMatcher                                                    *)
(***************************************************************************)
Rule(k, c) == [keyword |-> k, category |-> c]

\* KeywordMatcher.rules, in insertion order
rules ==
    << Rule("swiggy", "Food"), Rule("zomato", "Food"), Rule("blinkit", "Food"),
       Rule("zepto", "Food"), Rule("domin", "Food"), Rule("pizza", "Food"),
       Rule("burger", "Food"), Rule("kfc", "Food"), Rule("mcdonald", "Food"),
       Rule("starbuck", "Food"), Rule("cafe", "Food"), Rule("restaurant", "Food"),
       Rule("uber", "Transport"), Rule("ola", "Transport"), Rule("rapido", "Transport"),
       Rule("metro", "Transport"), Rule("irctc", "Transport"), Rule("fuel", "Transport"),
       Rule("petrol", "Transport"), Rule("shell", "Transport"),
       Rule("amazon", "Shopping"), Rule("flipkart", "Shopping"), Rule("myntra", "Shopping"),
       Rule("ajio", "Shopping"), Rule("decathlon", "Shopping"), Rule("zudio", "Shopping"),
       Rule("retail", "Shopping"),
       Rule("netflix", "Entertainment"), Rule("spotify", "Entertainment"),
       Rule("prime", "Entertainment"), Rule("hotstar", "Entertainment"),
       Rule("youtube", "Entertainment"), Rule("steam", "Entertainment"),
       Rule("pvr", "Entertainment"), Rule("inox", "Entertainment"),
       Rule("bookmyshow", "Entertainment"),
       Rule("bescom", "Utilities"), Rule("bwssb", "Utilities"), Rule("airtel", "Utilities"),
       Rule("jio", "Utilities"), Rule("vodafone", "Utilities"), Rule("vi", "Utilities"),
       Rule("act", "Utilities"), Rule("bill", "Utilities"),
       Rule("pharmacy", "Health"), Rule("apollo", "Health"), Rule("medplus", "Health"),
       Rule("practo", "Health"), Rule("clinic", "Health"), Rule("hospital", "Health"),
       Rule("gym", "Health"), Rule("fitness", "Health"),
       Rule("zerodha", "Finance"), Rule("groww", "Finance"), Rule("angel", "Finance"),
       Rule("cred", "Finance"), Rule("loan", "Finance"), Rule("emi", "Finance"),
       Rule("insurance", "Finance"), Rule("tax", "Finance") >>

\* the value None
None == "None"

\* re.search(r"\b" + keyword + r"\b", s)
WordSearch(s, w) ==
    \E i \in 1..Len(s) : Boundary(s, i) /\ HasPrefix(s, i, w) /\ Boundary(s, i + Len(w))

\* the test the rule loop applies to one keyword
KeywordHit(text_lower, keyword) ==
    IF Len(keyword) <= 4 THEN WordSearch(text_lower, keyword) ELSE Contains(text_lower, keyword)

\* KeywordMatcher.predict: the category of the first rule that matches, else None
RulePredict(text) ==
    LET text_lower == Lower(text)
        hits == { k \in 1..Len(rules) : KeywordHit(text_lower, rules[k].keyword) }
    IN  IF text = "" \/ hits = {} THEN None
        ELSE rules[CHOOSE k \in hits : \A j \in hits : k <= j].category

(***************************************************************************)
(* Fixed-point arithmetic.  A real r is the integer r * Q; a probability   *)
(* or an exponential is an integer in units of 2^-15 (One is 1.0), so that *)
(* a quotient that rounds up to exactly 1.0 can be seen.  Every product    *)
(* stays within 32 bits.                                                   *)
(***************************************************************************)
Q == 10 * 10 * 10

One == 2 ^ 15

\* a / b rounded toward zero
TruncDiv(a, b) == IF a >= 0 THEN a \div b ELSE -((-a) \div b)

\* a / b rounded to nearest, a >= 0
RoundDiv(a, b) == (a + (b \div 2)) \div b

RECURSIVE Isqrt(_)
\* floor of the square root
Isqrt(n) ==
    IF n < 2 THEN n
    ELSE LET s == 2 * Isqrt(n \div 4)
         IN  IF (s + 1) * (s + 1) > n THEN s ELSE s + 1

RECURSIVE ExpSeries(_, _, _)
\* term - term*x/k + term*x^2/(k(k+1)) - ... with x = f / Q
ExpSeries(f, k, term) ==
    IF term = 0 THEN 0 ELSE term - ExpSeries(f, k + 1, (term * f) \div (Q * k))

RECURSIVE ExpNeg(_)
\* exp(-d / Q) in units of 2^-15, d >= 0
ExpNeg(d) ==
    IF d >= Q
    THEN (ExpNeg(d \div 2) * ExpNeg(d - (d \div 2))) \div One
    ELSE ExpSeries(d, 1, One)

\* tanh(x / Q) * Q, x >= 0
TanhOf(x) == LET e == ExpNeg(2 * x) IN ((One - e) * Q) \div (One + e)

VARIABLE tanh       \* <<>>, or the values of TanhOf on 0..4Q, computed once

Tanh(x) == IF x < Len(tanh) THEN tanh[x + 1] ELSE TanhOf(x)

\* the table of the values of TanhOf
TanhTable == [i \in 1..(4 * Q + 1) |-> TanhOf(i - 1)]

RECURSIVE ArtanhSearch(_, _, _)
\* the smallest x in lo..hi with Tanh(x) >= y, given Tanh(hi) >= y
ArtanhSearch(y, lo, hi) ==
    IF lo >= hi THEN hi
    ELSE LET mid == (lo + hi) \div 2
         IN  IF TanhOf(mid) >= y THEN ArtanhSearch(y, lo, mid) ELSE ArtanhSearch(y, mid + 1, hi)

VARIABLE artanh     \* <<>>, or the values of ArtanhSearch on 0..Q-1, computed once

\* artanh(y / Q) * Q for y >= 0 (the library clamps the argument below 1)
Artanh(y) ==
    IF artanh = <<>>
    THEN ArtanhSearch(Min(y, Q - 1), 0, 9 * Q)
    ELSE artanh[Min(y, Q - 1) + 1]

\* the table of the values of ArtanhSearch
ArtanhTable == [i \in 1..Q |-> ArtanhSearch(i - 1, 0, 9 * Q)]

RECURSIVE SumSeq(_)
SumSeq(v) == IF v = <<>> THEN 0 ELSE Head(v) + SumSeq(Tail(v))

Dot(a, b) == SumSeq([i \in 1..Len(a) |-> a[i] * b[i]])

\* torch.norm(v, dim=-1)
Norm(v) == Isqrt(Dot(v, v))

\* v * num / den
Scale(v, num, den) == [i \in 1..Len(v) |-> TruncDiv(v[i] * num, den)]

\* F.linear(x, W, b)
Linear(W, x, b) == [k \in 1..Len(W) |-> TruncDiv(Dot(W[k], x), Q) + b[k]]

\* F.relu
ReLU(v) == [i \in 1..Len(v) |-> Max(v[i], 0)]

(***************************************************************************)
(* Poincare ball with c = 1 (geoopt.PoincareBall, float32)                 *)
(***************************************************************************)
\* the ball's numerical boundary 1 - 4e-3 that expmap0 projects onto
BallMaxNorm == Q - 4

\* PoincareBall.expmap0: tanh(|u|) u / |u|, then projected into the ball
expmap0(u) ==
    LET n  == Norm(u)
        z  == IF n = 0 THEN u ELSE Scale(u, Tanh(n), n)
        zn == Norm(z)
    IN  IF zn > BallMaxNorm THEN Scale(z, BallMaxNorm, zn) ELSE z

\* PoincareBall.logmap0: artanh(|y|) y / |y|
logmap0(y) ==
    LET n == Norm(y)
    IN  IF n = 0 THEN y ELSE Scale(y, Artanh(n), n)

(***************************************************************************)
(* hypcd.HyperbolicProjector                                               *)
(***************************************************************************)
\* HyperbolicProjector.__init__ clip_factor = 0.98
clip_factor == (98 * Q) \div 100

\* HyperbolicProjector.mlp: Linear, ReLU, Linear
mlp(pw, x) == Linear(pw.W2, ReLU(Linear(pw.W1, x, pw.b1)), pw.b2)

\* clip_features that rescales nothing
clip_features_Off(h) == h

\* HyperbolicProjector.clip_features (the 1e-8 in the divisor is below the resolution)
clip_features(h) ==
    LET norm == Norm(h)
    IN  IF norm > clip_factor THEN Scale(h, clip_factor, norm) ELSE h

\* HyperbolicProjector.forward
forward(pw, x) == expmap0(clip_features(mlp(pw, x)))

(***************************************************************************)
(* Embedding backend (backends/base.py): a deterministic encoder, a black  *)
(* box to the engine.  Its stand-in maps a text to a vector of dimension 2 *)
(* computed from the text.                                                 *)
(***************************************************************************)
\* how many characters of s are in the set cs
CountCh(s, cs) == Cardinality({ i \in 1..Len(s) : Ch(s, i) \in cs })

\* one row of BackendBase.embed: a fixed function of the text that ignores case
BackendEmbed(t) ==
    << ((Len(t) * 137) % (2 * Q)) - Q,
       ((CountCh(t, {"a", "A"}) * 421 + Len(t) * 61) % (2 * Q)) - Q >>

\* BackendBase.embed_batch
backend_embed_batch(texts) == [i \in 1..Len(texts) |-> BackendEmbed(texts[i])]

\* tensor.mean(dim=0)
Mean(vs) ==
    [j \in 1..Len(vs[1]) |-> TruncDiv(SumSeq([i \in 1..Len(vs) |-> vs[i][j]]), Len(vs))]

(***************************************************************************)
(* hypcd.HypLinear, hypcd.HypFFN                                           *)
(***************************************************************************)
\* HypLinear.forward
HypLinear(lw, x) == expmap0(Linear(lw.weight, logmap0(x), lw.bias))

\* HypFFN.forward
HypFFN(cw, x) ==
    LET x1 == HypLinear(cw.fc1, x)
        x2 == expmap0(ReLU(logmap0(x1)))
    IN  HypLinear(cw.fc2, x2)

RECURSIVE MaxSeq(_)
MaxSeq(v) == IF Len(v) = 1 THEN v[1] ELSE Max(Head(v), MaxSeq(Tail(v)))

\* softmax whose exponentials are divided by the largest instead of the sum
softmax_DivByMax(v) ==
    LET m == MaxSeq(v)
        e == [i \in 1..Len(v) |-> ExpNeg(m - v[i])]
    IN  [i \in 1..Len(v) |-> RoundDiv(e[i] * One, MaxSeq(e))]

\* F.softmax(v, dim=-1): exponentials of the differences to the maximum
softmax(v) ==
    LET m   == MaxSeq(v)
        e   == [i \in 1..Len(v) |-> ExpNeg(m - v[i])]
        sum == SumSeq(e)
    IN  [i \in 1..Len(v) |-> RoundDiv(e[i] * One, sum)]

\* tensor.max(dim=-1): the maximum and the first index that holds it
MaxIndex(v) == CHOOSE i \in 1..Len(v) : v[i] = MaxSeq(v) /\ \A j \in 1..(i - 1) : v[j] < v[i]

(***************************************************************************)
(* hypcd.HypCDClassifier                                                   *)
(***************************************************************************)
\* HypCDClassifier.labels
labels ==
    << "Food", "Transport", "Utilities", "Salary", "Shopping", "Entertainment",
       "Health", "Education", "Finance", "People", "Misc" >>

\* the trigger tokens of the Salary guardrail
salary_tokens == <<"salary", "payroll", "stipend", "credited", "wage">>

\* HypCDClassifier._initialize_anchors seed_phrases
seed_phrases ==
    [ Food          |-> <<"swiggy order", "zomato payment", "restaurant bill">>,
      Transport     |-> <<"uber ride", "ola trip", "metro recharge">>,
      Utilities     |-> <<"electricity bill", "water bill", "airtel recharge">>,
      Salary        |-> <<"salary credited", "monthly payroll", "salary transfer">>,
      Shopping      |-> <<"amazon purchase", "flipkart order", "retail shopping">>,
      Entertainment |-> <<"netflix subscription", "spotify payment", "movie ticket">>,
      Health        |-> <<"pharmacy purchase", "hospital bill", "clinic payment">>,
      Education     |-> <<"course payment", "tuition fee", "school fee">>,
      Finance       |-> <<"loan emi", "insurance premium", "investment transfer">>,
      People        |-> <<"transfer to friend", "gift payment", "family transfer">> ]

\* HypCDClassifier._initialize_anchors
initialize_anchors ==
    [category \in DOMAIN seed_phrases |-> Mean(backend_embed_batch(seed_phrases[category]))]

\* the texts of one update_anchors entry that survive the two filters
ValidTexts(texts) ==
    LET kept    == SelectSeq(texts, LAMBDA t : RunLen(Spaces, t, 1) < Len(t))
        cleaned == [i \in 1..Len(kept) |-> clean_description(kept[i])]
    IN  SelectSeq(cleaned, LAMBDA t : t # "")

(***************************************************************************)
(* Inputs of the classifier's operations                                   *)
(***************************************************************************)
\* longest list of texts handed to predict_batch
MaxBatch == 2

\* the transaction descriptions handed to predict and predict_batch
TextPool ==
    { "Netflix Subscription", "Random Store Purchase", "salary credited", "salary@okicici" }

\* the texts of the corrections handed to update_anchors
CorrectionLists ==
    { <<"swiggy order">>, <<"TO TRANSFER", " ">>, <<"zomato payment", "", "cafe 1234">> }

\* the categories the corrections are about ("Misc" has no seed anchor)
CorrectionKeys == {"Food", "Misc"}

\* the category -> texts mappings handed to update_anchors
UpdateInputs ==
    UNION { [ks -> CorrectionLists] : ks \in (SUBSET CorrectionKeys) \ {{}} }

VARIABLE memo       \* the values of the pure functions on the inputs of the model

\* ValidTexts over the correction lists
validOf == [texts \in CorrectionLists |-> ValidTexts(texts)]

\* the anchor computed from one entry: embedded.mean(dim=0) of its valid texts
NewAnchor(valid) == Mean(backend_embed_batch(valid))

newAnchorOf(valid) ==
    [texts \in { l \in CorrectionLists : valid[l] # <<>> } |-> NewAnchor(valid[texts])]

\* update_anchors that rebuilds the dictionary from the corrections alone
update_anchors_Rebuild(self_anchors, labeled_texts) ==
    LET updated == { c \in DOMAIN labeled_texts : memo.valid[labeled_texts[c]] # <<>> }
    IN  [c \in updated |-> memo.anchor[labeled_texts[c]]]

\* update_anchors that averages the new mean with the anchor already stored
update_anchors_Blend(self_anchors, labeled_texts) ==
    LET updated == { c \in DOMAIN labeled_texts : memo.valid[labeled_texts[c]] # <<>> }
    IN  [c \in (DOMAIN self_anchors) \cup updated |->
            IF c \in updated
            THEN IF c \in DOMAIN self_anchors
                 THEN Mean(<<self_anchors[c], memo.anchor[labeled_texts[c]]>>)
                 ELSE memo.anchor[labeled_texts[c]]
            ELSE self_anchors[c]]

\* HypCDClassifier.update_anchors: self.anchors after the call
update_anchors(self_anchors, labeled_texts) ==
    LET updated == { c \in DOMAIN labeled_texts : memo.valid[labeled_texts[c]] # <<>> }
    IN  [c \in (DOMAIN self_anchors) \cup updated |->
            IF c \in updated THEN memo.anchor[labeled_texts[c]] ELSE self_anchors[c]]

\* projector weights: identity-like layers of gain g
Proj(g) ==
    [ W1 |-> << <<g, 0>>, <<0, g>> >>, b1 |-> <<0, 0>>,
      W2 |-> << <<g, -g>>, <<g \div 2, g>> >>, b2 |-> <<10, -20>> ]

ProjectorStates == { Proj(Q \div 2), Proj(4 * Q) }

\* classifier weights whose output bias favours label k by g
Cls(k, g) ==
    [ fc1 |-> [weight |-> << <<Q, -Q>> >>, bias |-> <<Q \div 5>>],
      fc2 |-> [weight |-> [j \in 1..Len(labels) |-> <<(j - 6) * (Q \div 4)>>],
               bias   |-> [j \in 1..Len(labels) |-> IF j = k THEN g ELSE 0]] ]

ClassifierStates == { Cls(4, 3 * Q), Cls(11, 0), Cls(6, 8 * Q) }

\* the parameter states state_dict()/load_state_dict() move between
ModelStates ==
    { [projector |-> Proj(Q \div 2), classifier |-> Cls(4, 3 * Q)],
      [projector |-> Proj(4 * Q), classifier |-> Cls(4, 3 * Q)],
      [projector |-> Proj(4 * Q), classifier |-> Cls(11, 0)],
      [projector |-> Proj(Q \div 2), classifier |-> Cls(6, 8 * Q)] }

\* clean_description over the texts of the pool
cleanedOf == [t \in TextPool |-> clean_description(t)]

\* candidate = cleaned or str(text)
candidateOf(cleaned) == [t \in TextPool |-> IF cleaned[t] # "" THEN cleaned[t] ELSE t]

\* KeywordMatcher.predict over the candidates of the pool
ruleOf(candidates) == [c \in candidates |-> RulePredict(c)]

\* HyperbolicEmbedder.embed_batch, one row: backend, then projector
EmbedRow(pw, t) == forward(pw, BackendEmbed(t))

embeddedOf(candidates) == [pw \in ProjectorStates, c \in candidates |-> EmbedRow(pw, c)]

\* one row of probs: the classifier, logmap0, softmax
ProbsRow(cw, z) == softmax(logmap0(HypFFN(cw, z)))

probsOf(embeddings) == [cw \in ClassifierStates, z \in embeddings |-> ProbsRow(cw, z)]

\* any(token in candidate for token in [...]) for the lower-cased candidate
HasSalaryToken(candidate) ==
    \E k \in 1..Len(salary_tokens) : Contains(candidate, salary_tokens[k])

hasSalaryTokenOf(candidates) == [c \in candidates |-> HasSalaryToken(Lower(c))]

\* The cleaner, the rule table, the embedder, the classifier head and the
\* anchor means are pure functions of the text and of the weights: m holds
\* their values on the texts and weights of the model.
Memo(m) ==
    \E cleaned \in {cleanedOf}, valid \in {validOf} :
    \E candidate \in {candidateOf(cleaned)}, anchor \in {newAnchorOf(valid)} :
    \E candidates \in {{ candidate[t] : t \in TextPool }} :
    \E rule \in {ruleOf(candidates)}, embedded \in {embeddedOf(candidates)},
       salary \in {hasSalaryTokenOf(candidates)} :
    \E probs \in {probsOf({ embedded[pw, c] : pw \in ProjectorStates, c \in candidates })} :
        m = [ cleaned |-> cleaned, candidate |-> candidate, rule |-> rule,
              embedded |-> embedded, probs |-> probs, salary |-> salary,
              valid |-> valid, anchor |-> anchor ]

\* the tables when a specification uses none of them
NoMemo == <<>>

CandidateOf(text) == memo.candidate[text]

(***************************************************************************)
(* HypCDClassifier.predict_batch.  self is the classifier object:          *)
(* [weights, anchors, tensor], tensor being FALSE when the manifold        *)
(* library is monkeypatched and the embedder returns no tensor.  The       *)
(* value is [results, backend_calls, classifier_calls]: the list returned, *)
(* the argument of every backend.embed_batch call and the texts whose      *)
(* embeddings every self.classifier call is given.                         *)
(***************************************************************************)
\* what HyperbolicEmbedder.embed_batch(texts) returns; a row that is not a tensor
\* is written <<>>
embed_batch(self, texts) ==
    IF self.tensor
    THEN [i \in 1..Len(texts) |-> memo.embedded[self.weights.projector, texts[i]]]
    ELSE [i \in 1..Len(texts) |-> <<>>]

\* a first loop that never consults the rule table
RuleStep_SkipRules(self, acc, i, text) ==
    [acc EXCEPT !.model_texts   = Append(@, CandidateOf(text)),
                !.model_indices = Append(@, i)]

\* a first loop that queues rule-matched texts for the classifier as well
RuleStep_AlsoClassify(self, acc, i, text) ==
    LET candidate     == CandidateOf(text)
        rule_category == memo.rule[candidate]
        queued        == [acc EXCEPT !.model_texts   = Append(@, candidate),
                                     !.model_indices = Append(@, i)]
    IN  IF rule_category # None
        THEN [queued EXCEPT
                !.results[i] = [ category   |-> rule_category,
                                 confidence |-> One,
                                 embedding  |-> embed_batch(self, <<candidate>>)[1],
                                 is_novel   |-> FALSE ],
                !.backend_calls = Append(@, <<candidate>>)]
        ELSE queued

\* the body of the first loop for texts[i] = text
RuleStep(self, acc, i, text) ==
    LET candidate     == CandidateOf(text)
        rule_category == memo.rule[candidate]
    IN  IF rule_category # None
        THEN [acc EXCEPT
                !.results[i] = [ category   |-> rule_category,
                                 confidence |-> One,
                                 embedding  |-> embed_batch(self, <<candidate>>)[1],
                                 is_novel   |-> FALSE ],
                !.backend_calls = Append(@, <<candidate>>)]
        ELSE [acc EXCEPT
                !.model_texts   = Append(@, candidate),
                !.model_indices = Append(@, i)]

RECURSIVE RuleLoop(_, _, _, _)
RuleLoop(self, texts, i, acc) ==
    IF i > Len(texts) THEN acc
    ELSE RuleLoop(self, texts, i + 1, RuleStep(self, acc, i, texts[i]))

\* a guardrail that never demotes
Guardrail_Off(predicted, model_text) == predicted

\* the guardrail on the prediction for model_texts[model_i]
Guardrail(predicted, model_text) ==
    IF predicted = "Salary" /\ ~memo.salary[model_text] THEN "Misc" ELSE predicted

SqDist(a, b) == SumSeq([j \in 1..Len(a) |-> (a[j] - b[j]) * (a[j] - b[j])])

\* a result whose category is that of the anchor nearest to the text's backend embedding
ModelResult_NearestAnchor(self, candidate, embedding, probs) ==
    LET e    == BackendEmbed(candidate)
        best == CHOOSE c \in DOMAIN self.anchors :
                    \A d \in DOMAIN self.anchors :
                        SqDist(self.anchors[c], e) <= SqDist(self.anchors[d], e)
    IN  [ category   |-> best,
          confidence |-> MaxSeq(probs),
          embedding  |-> embedding,
          is_novel   |-> FALSE ]

\* the result built for model_texts[model_i] from its row of probs
ModelResult(self, candidate, embedding, probs) ==
    [ category   |-> Guardrail(labels[MaxIndex(probs)], candidate),
      confidence |-> MaxSeq(probs),
      embedding  |-> embedding,
      is_novel   |-> FALSE ]

\* a second loop that stores the result of model text m at position m of the list
ModelPath_ByModelPosition(self, acc) ==
    LET n          == Len(acc.model_texts)
        embeddings == embed_batch(self, acc.model_texts)
        logged     == [acc EXCEPT !.backend_calls = Append(@, acc.model_texts)]
    IN  [logged EXCEPT
            !.classifier_calls = Append(@, acc.model_texts),
            !.results =
                [i \in DOMAIN acc.results |->
                    IF i <= n
                    THEN IF self.tensor
                         THEN ModelResult(self, acc.model_texts[i], embeddings[i],
                                          memo.probs[self.weights.classifier, embeddings[i]])
                         ELSE [ category |-> "Misc", confidence |-> 0,
                                embedding |-> embeddings, is_novel |-> FALSE ]
                    ELSE acc.results[i]]]

\* the part of predict_batch after the first loop
ModelPath(self, acc) ==
    LET n          == Len(acc.model_texts)
        embeddings == embed_batch(self, acc.model_texts)
        logged     == [acc EXCEPT !.backend_calls = Append(@, acc.model_texts)]
    IN  IF ~self.tensor
        THEN [logged EXCEPT !.results =
                [i \in DOMAIN acc.results |->
                    IF \E m \in 1..n : acc.model_indices[m] = i
                    THEN [ category |-> "Misc", confidence |-> 0,
                           embedding |-> embeddings, is_novel |-> FALSE ]
                    ELSE acc.results[i]]]
        ELSE [logged EXCEPT
                !.classifier_calls = Append(@, acc.model_texts),
                !.results =
                    [i \in DOMAIN acc.results |->
                        IF \E m \in 1..n : acc.model_indices[m] = i
                        THEN LET m == CHOOSE m \in 1..n : acc.model_indices[m] = i
                             IN  ModelResult(self, acc.model_texts[m], embeddings[m],
                                             memo.probs[self.weights.classifier, embeddings[m]])
                        ELSE acc.results[i]]]

predict_batch(self, texts) ==
    LET acc == RuleLoop(self, texts, 1,
                        [ results          |-> [i \in 1..Len(texts) |-> None],
                          model_texts      |-> <<>>,
                          model_indices    |-> <<>>,
                          backend_calls    |-> <<>>,
                          classifier_calls |-> <<>> ])
    IN  IF acc.model_texts = <<>> THEN acc ELSE ModelPath(self, acc)

(***************************************************************************)
(* State.  Each component is modelled with its own specification: the     *)
(* classifier object (Spec), the classifier singleton of the API service   *)
(* (SpecSingleton), the projector alone (SpecProjector), the K-means         *)
(* clusterers (SpecKMeans) and the hierarchy extractor (SpecHierarchy).    *)
(* A specification leaves the variables of the other components untouched. *)
(***************************************************************************)
VARIABLES
    anchors,          \* HypCDClassifier.anchors: category -> mean backend embedding
    weights,          \* the parameters of embedder.projector and of classifier
    tensor,           \* FALSE when the embedder yields non-tensor embeddings
    call,             \* the last operation: its name, argument and outcome
    g_classifier,     \* service._classifier: None or the instance
    classifier_lock,  \* service._classifier_lock: 0 when free, else its holder
    pc,               \* where each caller of get_classifier() stands
    local,            \* the instance a caller has constructed and not yet stored
    received,         \* the values get_classifier() has returned to each caller
    raised,           \* how many calls of each caller ended in an exception
    instances,        \* the instances whose constructor has returned
    runs,             \* how many times the constructor has been entered
    proj_weights,     \* the parameters of a HyperbolicProjector
    proj_call,        \* the last forward(): input, features, clipped features, output
    km,               \* a HyperbolicKMeans: its module, its parameters and the batch it fits
    centroids,        \* HyperbolicKMeans.centroids, <<>> before fit()
    prev_centroids,   \* discovery.py fit(): prev_centroids, <<>> for None
    km_labels,        \* fit(): the labels of the last assignment step
    iteration,        \* fit(): how many rounds of the loop have been entered
    km_pc,            \* fit(): where the call stands
    km_call,          \* the last step of the K-means object and its outcome
    hier_centroids,   \* the centroids handed to a HierarchyExtractor
    hier_call,        \* the last categorize_depth(): norms, median, macro, micro
    kd_params,        \* KnowledgeDistiller: the parameters of its four modules
    kd_grads,         \* the .grad of each module, <<>> for None
    kd_initial,       \* the parameters the constructor has drawn
    kd_call,          \* the last distill_step() or distill_epoch() and the steps it made
    tr_regime,        \* which training loop runs: train_step or train_epoch
    tr_pc,            \* the statement of the training step that runs next
    tr_grad,          \* the norm of the gradient of the parameters
    tr_ops,           \* the statements the current training step has executed
    tr_batches,       \* how many batches of the loader are left
    tr_applied,       \* the norm of the gradient the last optimizer.step() has used
    ckpt_keep,        \* CheckpointManager.keep_last_n
    ckpt_files,       \* the checkpoint_epoch_*.pt files: epoch, st_mtime, checkpoint
    ckpt_latest,      \* latest_checkpoint.pt: <<>> or its checkpoint
    ckpt_best,        \* best_checkpoint.pt: <<>> or its checkpoint
    ckpt_metadata,    \* checkpoint_metadata.json: the epochs saved, in order
    ckpt_clock,       \* the clock of the file system
    ckpt_call,        \* the last call of the CheckpointManager and its outcome
    pl_config,        \* HypCDTrainingPipeline.config
    pl_pc,            \* train(): where the call stands
    pl_epoch,         \* train(): the epoch of the loop
    pl_history,       \* monitor.metrics_history: the validation metrics of each epoch
    pl_best_val,      \* train(): best_val_accuracy
    pl_best_metrics,  \* monitor.best_metrics
    tj_status,        \* training_jobs.status of the row of each request, None before the insert
    ep_pc,            \* train_model_async: where the handler of each request stands
    task_pc,          \* train_model_task: where the task of each job stands
    task_retries,     \* train_model_task: self.request.retries
    wj_status,        \* training_jobs.status of the rows the worker polls, None before the insert
    wj_logs,          \* training_jobs.logs of these rows
    wj_runs,          \* how many times train_model has been called for each job
    w_pc,             \* worker main(): where each worker stands
    w_job,            \* worker main(): the job a worker has selected
    w_last,           \* worker main(): the last message a worker has logged
    dc_call,          \* discover_categories: texts and n_clusters of the call
    dc_pc,            \* discover_categories: where the call stands
    dc_labels,        \* discover_categories: the labels predict() returned
    dc_discovered     \* discover_categories: the list it returns

classifierVars == <<anchors, weights, tensor, call, memo>>

singletonVars ==
    <<g_classifier, classifier_lock, pc, local, received, raised, instances, runs>>

projectorVars == <<proj_weights, proj_call>>

kmeansVars == <<km, centroids, prev_centroids, km_labels, iteration, km_pc, km_call>>

hierarchyVars == <<hier_centroids, hier_call>>

distillerVars == <<kd_params, kd_grads, kd_initial, kd_call>>

trainerVars == <<tr_regime, tr_pc, tr_grad, tr_ops, tr_batches, tr_applied>>

checkpointVars ==
    <<ckpt_keep, ckpt_files, ckpt_latest, ckpt_best, ckpt_metadata, ckpt_clock, ckpt_call>>

pipelineVars == <<pl_config, pl_pc, pl_epoch, pl_history, pl_best_val, pl_best_metrics>>

jobsVars == <<tj_status, ep_pc, task_pc, task_retries>>

workerVars == <<wj_status, wj_logs, wj_runs, w_pc, w_job, w_last>>

discoverVars == <<dc_call, dc_pc, dc_labels, dc_discovered>>

\* the tables of tanh and artanh, which no operation changes
tableVars == <<tanh, artanh>>

vars ==
    <<classifierVars, singletonVars, projectorVars, kmeansVars, hierarchyVars, distillerVars,
      trainerVars, checkpointVars, pipelineVars, jobsVars, workerVars, discoverVars,
      tableVars>>

\* the tables are filled in the specifications that evaluate tanh and artanh in every step
TablesOff == tanh = <<>> /\ artanh = <<>>

TablesOn == tanh = TanhTable /\ artanh = ArtanhTable

\* what the operations of one component leave alone: the other components
exceptClassifier ==
    <<singletonVars, projectorVars, kmeansVars, hierarchyVars,
      distillerVars, trainerVars,
      checkpointVars, pipelineVars,
      jobsVars, workerVars, discoverVars, tableVars>>

exceptSingleton ==
    <<classifierVars, projectorVars, kmeansVars, hierarchyVars,
      distillerVars, trainerVars,
      checkpointVars, pipelineVars,
      jobsVars, workerVars, discoverVars, tableVars>>

exceptProjector ==
    <<classifierVars, singletonVars, kmeansVars, hierarchyVars,
      distillerVars, trainerVars,
      checkpointVars, pipelineVars,
      jobsVars, workerVars, discoverVars, tableVars>>

exceptKMeans ==
    <<classifierVars, singletonVars, projectorVars, hierarchyVars,
      distillerVars, trainerVars,
      checkpointVars, pipelineVars,
      jobsVars, workerVars, discoverVars, tableVars>>

exceptHierarchy ==
    <<classifierVars, singletonVars, projectorVars, kmeansVars,
      distillerVars, trainerVars,
      checkpointVars, pipelineVars,
      jobsVars, workerVars, discoverVars, tableVars>>

exceptDistiller ==
    <<classifierVars, singletonVars, projectorVars, kmeansVars,
      hierarchyVars, trainerVars,
      checkpointVars, pipelineVars,
      jobsVars, workerVars, discoverVars, tableVars>>

exceptTrainer ==
    <<classifierVars, singletonVars, projectorVars, kmeansVars,
      hierarchyVars, distillerVars,
      checkpointVars, pipelineVars,
      jobsVars, workerVars, discoverVars, tableVars>>

exceptCheckpoint ==
    <<classifierVars, singletonVars, projectorVars, kmeansVars,
      hierarchyVars, distillerVars, trainerVars, pipelineVars,
      jobsVars, workerVars, discoverVars, tableVars>>

exceptJobs ==
    <<classifierVars, singletonVars, projectorVars, kmeansVars,
      hierarchyVars, distillerVars, trainerVars, checkpointVars, pipelineVars, workerVars, discoverVars, tableVars>>

exceptWorker ==
    <<classifierVars, singletonVars, projectorVars, kmeansVars,
      hierarchyVars, distillerVars, trainerVars, checkpointVars, pipelineVars, jobsVars,
      discoverVars, tableVars>>

\* discover_categories writes its own variables next to those of its K-means object
exceptKMeansDiscover ==
    <<classifierVars, singletonVars, projectorVars,
      hierarchyVars, distillerVars, trainerVars, checkpointVars, pipelineVars, jobsVars,
      workerVars, tableVars>>

\* train() writes the pipeline and, through save(), the checkpoint directory
exceptPipeline ==
    <<classifierVars, singletonVars, projectorVars, kmeansVars,
      hierarchyVars, distillerVars, trainerVars,
      jobsVars, workerVars, discoverVars, tableVars>>

(***************************************************************************)
(* The classifier object and its operations                                *)
(***************************************************************************)
Self == [weights |-> weights, anchors |-> anchors, tensor |-> tensor]

\* the lists of at most MaxBatch texts
Batches == UNION { [1..n -> TextPool] : n \in 0..MaxBatch }

\* HypCDClassifier.__init__
ClassifierInit ==
    /\ Memo(memo)
    /\ anchors = initialize_anchors
    /\ weights \in ModelStates
    /\ tensor \in BOOLEAN
    /\ call = [op |-> "init", arg |-> None, out |-> None]

\* the classifier object when a specification does not use it
ClassifierIdle ==
    /\ memo = NoMemo
    /\ anchors = initialize_anchors
    /\ weights = None
    /\ tensor = TRUE
    /\ call = [op |-> "init", arg |-> None, out |-> None]

\* HypCDClassifier.predict_batch(texts)
PredictBatch ==
    \E texts \in Batches :
        /\ call' = [op |-> "predict_batch", arg |-> texts, out |-> predict_batch(Self, texts)]
        /\ UNCHANGED <<anchors, weights, tensor, memo, exceptClassifier>>

\* HypCDClassifier.predict(text)
Predict ==
    \E text \in TextPool :
        /\ call' = [op |-> "predict", arg |-> <<text>>, out |-> predict_batch(Self, <<text>>)]
        /\ UNCHANGED <<anchors, weights, tensor, memo, exceptClassifier>>

\* HypCDClassifier.update_anchors(labeled_texts)
UpdateAnchors ==
    \E labeled_texts \in UpdateInputs :
        /\ anchors' = update_anchors(anchors, labeled_texts)
        /\ call' = [op |-> "update_anchors", arg |-> labeled_texts, out |-> None]
        /\ UNCHANGED <<weights, tensor, memo, exceptClassifier>>

\* HypCDClassifier.load_state_dict(state)
LoadStateDict ==
    \E state \in ModelStates :
        /\ weights' = state
        /\ call' = [op |-> "load_state_dict", arg |-> state, out |-> None]
        /\ UNCHANGED <<anchors, tensor, memo, exceptClassifier>>

(***************************************************************************)
(* service.get_classifier: one process, several request threads            *)
(***************************************************************************)
\* the threads that call get_classifier()
NumCallers == 2

\* calls each thread makes at most
MaxCalls == 2

\* constructor runs that raise at most
MaxFailures == 1

Callers == 1..NumCallers

\* `_classifier = None`: the global before any instance is bound to it
NoClassifier == 0

\* `if _classifier is None:` before the lock
FirstCheck(value) == value = NoClassifier

\* a second check that is missing: whoever gets the lock constructs
SecondCheck_Missing(value) == TRUE

\* `if _classifier is None:` under the lock
SecondCheck(value) == value = NoClassifier

\* an exception that leaves the with block with the lock still held (not what the
\* code does)
LockAfterRaise_Held(t) == t

\* `with _classifier_lock:` releases the lock when an exception leaves the block
LockAfterRaise(t) == 0

SingletonInit ==
    /\ g_classifier = NoClassifier
    /\ classifier_lock = 0
    /\ pc = [t \in Callers |-> "idle"]
    /\ local = [t \in Callers |-> NoClassifier]
    /\ received = [t \in Callers |-> {}]
    /\ raised = [t \in Callers |-> 0]
    /\ instances = {}
    /\ runs = 0

\* a thread enters get_classifier()
Call(t) ==
    /\ pc[t] = "idle"
    /\ Cardinality(received[t]) + raised[t] < MaxCalls
    /\ pc' = [pc EXCEPT ![t] = "check1"]
    /\ local' = [local EXCEPT ![t] = NoClassifier]
    /\ UNCHANGED <<g_classifier, classifier_lock, received, raised, instances, runs,
                 exceptSingleton>>

\* line 27: the unlocked check
Check1(t) ==
    /\ pc[t] = "check1"
    /\ pc' = [pc EXCEPT ![t] = IF FirstCheck(g_classifier) THEN "acquire" ELSE "return"]
    /\ UNCHANGED <<g_classifier, classifier_lock, local, received, raised, instances, runs,
                 exceptSingleton>>

\* line 28: with _classifier_lock
Acquire(t) ==
    /\ pc[t] = "acquire"
    /\ classifier_lock = 0
    /\ classifier_lock' = t
    /\ pc' = [pc EXCEPT ![t] = "check2"]
    /\ UNCHANGED <<g_classifier, local, received, raised, instances, runs,
                 exceptSingleton>>

\* line 29: the check under the lock
Check2(t) ==
    /\ pc[t] = "check2"
    /\ pc' = [pc EXCEPT ![t] = IF SecondCheck(g_classifier) THEN "construct" ELSE "release"]
    /\ UNCHANGED <<g_classifier, classifier_lock, local, received, raised, instances, runs,
                 exceptSingleton>>

\* lines 31-32: the import and the constructor are entered
ConstructBegin(t) ==
    /\ pc[t] = "construct"
    /\ runs' = runs + 1
    /\ pc' = [pc EXCEPT ![t] = "constructing"]
    /\ UNCHANGED <<g_classifier, classifier_lock, local, received, raised, instances,
                 exceptSingleton>>

\* line 32: HypCDClassifier() returns a new instance
ConstructReturn(t) ==
    /\ pc[t] = "constructing"
    /\ instances' = instances \cup {runs}
    /\ local' = [local EXCEPT ![t] = runs]
    /\ pc' = [pc EXCEPT ![t] = "assign"]
    /\ UNCHANGED <<g_classifier, classifier_lock, received, raised, runs,
                 exceptSingleton>>

\* lines 31-32: the import or the constructor raises
ConstructRaise(t) ==
    /\ pc[t] = "constructing"
    /\ SumSeq([u \in Callers |-> raised[u]])
         + Cardinality({ u \in Callers : pc[u] = "except" }) < MaxFailures
    /\ pc' = [pc EXCEPT ![t] = "except"]
    /\ UNCHANGED <<g_classifier, classifier_lock, local, received, raised, instances, runs,
                 exceptSingleton>>

\* line 32: the global is bound to the instance; line 33 logs
Assign(t) ==
    /\ pc[t] = "assign"
    /\ g_classifier' = local[t]
    /\ pc' = [pc EXCEPT ![t] = "release"]
    /\ UNCHANGED <<classifier_lock, local, received, raised, instances, runs,
                 exceptSingleton>>

\* lines 34-36: the error is logged and re-raised; leaving the with block frees the lock
Except(t) ==
    /\ pc[t] = "except"
    /\ classifier_lock' = LockAfterRaise(t)
    /\ raised' = [raised EXCEPT ![t] = @ + 1]
    /\ pc' = [pc EXCEPT ![t] = "idle"]
    /\ UNCHANGED <<g_classifier, local, received, instances, runs,
                 exceptSingleton>>

\* the with block is left normally
Release(t) ==
    /\ pc[t] = "release"
    /\ classifier_lock' = 0
    /\ pc' = [pc EXCEPT ![t] = "return"]
    /\ UNCHANGED <<g_classifier, local, received, raised, instances, runs,
                 exceptSingleton>>

\* line 37: return _classifier
Return(t) ==
    /\ pc[t] = "return"
    /\ received' = [received EXCEPT ![t] = @ \cup {g_classifier}]
    /\ pc' = [pc EXCEPT ![t] = "idle"]
    /\ UNCHANGED <<g_classifier, classifier_lock, local, raised, instances, runs,
                 exceptSingleton>>

\* the singleton when a specification does not use it
SingletonIdle == SingletonInit

(***************************************************************************)
(* A HyperbolicProjector on its own                                        *)
(***************************************************************************)
\* the inputs of forward() are the points (a, b) * Q / 4 with |a|, |b| <= MaxIn
MaxIn == 4

ProjectorInputs == { <<a * (Q \div 4), b * (Q \div 4)>> : a, b \in (-MaxIn)..MaxIn }

\* projector weights with entries of both signs
ProjMixed(g) ==
    [ W1 |-> << <<-g, g>>, <<g, -(g \div 2)>> >>, b1 |-> <<Q \div 10, 0>>,
      W2 |-> << <<g \div 4, -g>>, <<-g, g \div 3>> >>, b2 |-> <<-30, 40>> ]

ProjectorSpecStates == ProjectorStates \cup { ProjMixed(Q), ProjMixed(Q \div 4) }

\* no forward() has run since the parameters were set
NoForward == [op |-> "init", x |-> <<>>, h |-> <<>>, h_clipped |-> <<>>, z |-> <<>>]

ProjectorInit ==
    /\ proj_weights \in ProjectorSpecStates
    /\ proj_call = NoForward

\* the projector when a specification does not use it
ProjectorIdle ==
    /\ proj_weights = None
    /\ proj_call = NoForward

\* HyperbolicProjector.forward(x), with the value of each layer
Forward ==
    \E x \in ProjectorInputs :
        LET h         == mlp(proj_weights, x)
            h_clipped == clip_features(h)
        IN  /\ proj_call' = [op |-> "forward", x |-> x, h |-> h, h_clipped |-> h_clipped,
                             z |-> forward(proj_weights, x)]
            /\ UNCHANGED <<proj_weights, exceptProjector>>

\* the projector's parameters change (training, load_state_dict)
ProjectorLoad ==
    \E pw \in ProjectorSpecStates :
        /\ proj_weights' = pw
        /\ proj_call' = NoForward
        /\ UNCHANGED <<exceptProjector>>

(***************************************************************************)
(* clustering.HyperbolicKMeans and discovery.HyperbolicKMeans              *)
(*                                                                         *)
(* The points lie on one axis of the ball and are written <<x>>.  On one   *)
(* axis (-x) (+) y = (y - x) / (1 - x y), and the Fréchet mean of a set of *)
(* points is expmap0 of the mean of their logmap0 images, which is the     *)
(* point frechet_mean starts its gradient steps from.                      *)
(***************************************************************************)
\* the single element of a set; { F(x) : x \in {e} } computes e once
Only(S) == CHOOSE r \in S : TRUE

\* PoincareBall.dist(x, y) = 2 artanh |(-x) (+) y|
dist(x, y) ==
    LET den == Q - TruncDiv(x[1] * y[1], Q)
    IN  2 * Artanh(Abs(TruncDiv((y[1] - x[1]) * Q, den)))

\* PoincareBall.dist2(x, y), in units of 1 / Q^2
dist2(x, y) == Only({ d * d : d \in { dist(x, y) } })

RECURSIVE MinSeq(_)
\* torch.min: the smallest entry
MinSeq(v) == IF Len(v) = 1 THEN v[1] ELSE Min(Head(v), MinSeq(Tail(v)))

\* torch.argmin, torch.min: the first index of the smallest entry
MinIndex(v) ==
    CHOOSE i \in 1..Len(v) :
        /\ \A j \in 1..Len(v) : v[i] <= v[j]
        /\ \A j \in 1..(i - 1) : v[j] > v[i]

\* clustering.py: distances.argmin(dim=1) of the stacked dist() columns
argmin_dist(X, cs) ==
    [i \in 1..Len(X) |->
        Only({ MinIndex(d) : d \in { [k \in 1..Len(cs) |-> dist(X[i], cs[k])] \o <<>> } })]
    \o <<>>

\* discovery.py: torch.argmin(dist_matrix, dim=1) of the dist2() matrix
argmin_dist2(X, cs) ==
    [i \in 1..Len(X) |->
        Only({ MinIndex(d) : d \in { [k \in 1..Len(cs) |-> dist2(X[i], cs[k])] \o <<>> } })]
    \o <<>>

RECURSIVE Masked(_, _, _)
\* embeddings[labels == k]
Masked(X, lab, k) ==
    IF X = <<>> THEN <<>>
    ELSE (IF Head(lab) = k THEN <<Head(X)>> ELSE <<>>) \o Masked(Tail(X), Tail(lab), k)

Sign(a) == IF a < 0 THEN -1 ELSE 1

\* expmap0 and logmap0 of a point <<x>>: the norm is |x| and x / |x| its sign
expmap0_axis(u) == <<Sign(u[1]) * Min(Tanh(Abs(u[1])), BallMaxNorm)>>

logmap0_axis(y) == <<Sign(y[1]) * Artanh(Abs(y[1]))>>

\* HyperbolicKMeans.frechet_mean(points) of clustering.py
frechet_mean(points) ==
    expmap0_axis(Mean([i \in 1..Len(points) |-> logmap0_axis(points[i])] \o <<>>) \o <<>>)

\* a cluster without points gets the origin (not what the code does)
HeldOver_Origin(cs, k) == <<0>>

\* clustering.py: new_centroids.append(self.centroids[k]) for a cluster without points
HeldOver(cs, k) == cs[k]

\* clustering.py: self.centroids[k] raises IndexError when there is no row k
IndexError(X, cs, lab, n_clusters) ==
    \E k \in 1..n_clusters : Masked(X, lab, k) = <<>> /\ k > Len(cs)

\* clustering.py: the update loop over range(self.n_clusters), when it does not raise
new_centroids(X, cs, lab, n_clusters) ==
    [k \in 1..n_clusters |->
        Only({ IF points # <<>> THEN frechet_mean(points) ELSE HeldOver(cs, k) :
               points \in { Masked(X, lab, k) } })]
    \o <<>>

\* discovery.py: self.centroids[k : k + 1], empty when there is no row k
Slice(cs, k) == IF k <= Len(cs) THEN <<cs[k]>> ELSE <<>>

\* discovery.py: RiemannianAdam(lr=0.1) and its range(20) steps
AdamSteps == 20

AdamLr == Q \div 10

\* the hyperbolic length the steps of one M-step can cover
AdamReach == AdamSteps * AdamLr

\* how far from its target, in the tangent coordinate, the optimizer may end:
\* with lr = 0.1 its overshoot after 20 steps stays below 0.3 in distance
AdamSlack == 150

AdamErrors == {-AdamSlack, 0, AdamSlack}

\* the tangent coordinate the optimizer heads for: it starts at the old centroid
\* and moves towards the minimum of the mean squared distance to the points,
\* as far as its steps reach
AdamTarget(old, points) ==
    Only({ t0 + Max(-(AdamReach \div 2), Min(AdamReach \div 2, t1 - t0)) :
           t0 \in { logmap0_axis(old)[1] },
           t1 \in { Mean([i \in 1..Len(points) |-> logmap0_axis(points[i])] \o <<>>)[1] } })

\* discovery.py: the clusters with points, and the targets of their centroids
Moved(X, lab, n_clusters) == { k \in 1..n_clusters : Masked(X, lab, k) # <<>> }

Targets(X, cs, lab, n_clusters) ==
    [k \in 1..n_clusters |->
        Only({ IF points = <<>> THEN 0 ELSE AdamTarget(cs[k], points) :
               points \in { Masked(X, lab, k) } })]
    \o <<>>

\* the centroid stays where it was (not what the code does)
AdamMean_Stay(old, target, e) == old

\* discovery.py: the centroid after the steps of the optimizer, which ends
\* within AdamSlack of its target
AdamMean(old, target, e) == expmap0_axis(<<target + e>>)

RECURSIVE MStep(_, _, _, _, _)
\* discovery.py: the M-step loop, torch.cat of the rows of the clusters k..n_clusters
MStep(cs, moved, targets, err, k) ==
    IF k > Len(err) THEN <<>>
    ELSE (IF k \notin moved
          THEN Slice(cs, k)
          ELSE <<AdamMean(cs[k], targets[k], err[k])>>)
         \o MStep(cs, moved, targets, err, k + 1)

\* manifold.dist(a, b).max() over the rows
MaxShift(a, b) ==
    Only({ MaxSeq(d) : d \in { [k \in 1..Len(a) |-> dist(a[k], b[k])] \o <<>> } })

\* clustering.py predict(): (labels, confidence, is_known) of one embedding
predict(cs, x, confidence_threshold) ==
    Only({ [labels |-> label, confidence |-> confidence,
            is_known |-> confidence > confidence_threshold] :
           label \in { MinIndex([k \in 1..Len(cs) |-> dist(x, cs[k])] \o <<>>) },
           confidence \in { ExpNeg(MinSeq([k \in 1..Len(cs) |-> dist(x, cs[k])] \o <<>>)) } })

\* the largest number of clusters and of rounds
MaxClusters == 2

MaxIter == 2

\* the convergence tolerance of the fits, in units of 1 / Q
Tol == 1

PointPool == { <<-(Q \div 2)>>, <<Q \div 10>>, <<Q \div 2>> }

\* batches of one to three points, with and without repeated points
SmallBatches ==
    { << <<500>> >>, << <<500>>, <<500>> >>, << <<100>>, <<500>> >>,
      << <<500>>, <<500>>, <<-500>> >>, << <<-500>>, <<100>>, <<500>> >> }

\* test_discovery.py: the first coordinates of the two groups around 0.5 and -0.5
TwoGroups ==
    << <<500>>, <<550>>, <<450>>, <<-500>>, <<-550>>, <<-450>> >>

GroupA == {1, 2, 3}

GroupB == {4, 5, 6}

\* the batches and the numbers of clusters they are fitted with
DataConfigs ==
    { <<X, k>> : X \in SmallBatches, k \in 1..MaxClusters }
    \cup { <<TwoGroups, 2>> }

KMeansConfigs ==
    { [impl |-> impl, X |-> d[1], n_clusters |-> d[2], max_iter |-> m, tol |-> Tol] :
        impl \in {"clustering", "discovery"}, d \in DataConfigs, m \in 1..MaxIter }

\* torch.randperm(n)[:k]: min(n, k) distinct row indices in any order
RandPerm(n, k) ==
    { p \in [1..Min(n, k) -> 1..n] : \A i, j \in 1..Min(n, k) : p[i] = p[j] => i = j }

ConfidenceThresholds == { One \div 2, RoundDiv(7 * One, 10), One }

NoKMeansCall ==
    [op |-> "init", old |-> <<>>, labels |-> <<>>, shift |-> 0,
     x |-> <<>>, threshold |-> 0, out |-> <<>>, raised |-> FALSE]

KMeansInit ==
    /\ km \in KMeansConfigs
    /\ centroids = <<>>
    /\ prev_centroids = <<>>
    /\ km_labels = <<>>
    /\ iteration = 0
    /\ km_pc = "new"
    /\ km_call = NoKMeansCall

\* the K-means object when a specification does not use it
KMeansIdle ==
    /\ km = None
    /\ centroids = <<>>
    /\ prev_centroids = <<>>
    /\ km_labels = <<>>
    /\ iteration = 0
    /\ km_pc = "new"
    /\ km_call = NoKMeansCall

\* fit(): the initial centroids are rows of the batch
KMFit ==
    /\ km_pc = "new"
    /\ \E p \in RandPerm(Len(km.X), km.n_clusters) :
          centroids' = [i \in 1..Len(p) |-> km.X[p[i]]]
    /\ km_pc' = "assign"
    /\ km_call' = [NoKMeansCall EXCEPT !.op = "fit"]
    /\ UNCHANGED <<km, prev_centroids, km_labels, iteration, exceptKMeans>>

\* the assignment step of one round; discovery.py then tests the shift of the
\* previous round and leaves the loop when it is below tol
KMAssign ==
    /\ km_pc = "assign"
    /\ iteration < km.max_iter
    /\ iteration' = iteration + 1
    /\ IF km.impl = "clustering"
       THEN /\ km_labels' = argmin_dist(km.X, centroids)
            /\ km_pc' = "update"
            /\ km_call' = [NoKMeansCall EXCEPT !.op = "assign", !.labels = km_labels']
            /\ UNCHANGED prev_centroids
       ELSE \E dist_shift \in { IF prev_centroids = <<>> THEN 0
                                 ELSE MaxShift(centroids, prev_centroids) } :
                LET converged == prev_centroids # <<>> /\ dist_shift < km.tol
                IN  /\ km_labels' = argmin_dist2(km.X, centroids)
                    /\ km_pc' = IF converged THEN "done" ELSE "update"
                    /\ prev_centroids' = IF converged THEN prev_centroids ELSE centroids
                    /\ km_call' = [NoKMeansCall EXCEPT
                                      !.op = "assign", !.labels = km_labels',
                                      !.old = prev_centroids, !.shift = dist_shift]
    /\ UNCHANGED <<km, centroids, exceptKMeans>>

\* the loop goes on although the centroids have stopped moving (not what the code does)
AfterRound_NoBreak(stop) ==
    IF iteration = km.max_iter THEN "done" ELSE "assign"

\* where the loop goes after a round: out on break and when the rounds are used up
AfterRound(stop) ==
    IF stop \/ iteration = km.max_iter THEN "done" ELSE "assign"

\* the update step of one round of clustering.py, with its convergence test
KMUpdateClustering ==
    /\ km_pc = "update"
    /\ km.impl = "clustering"
    /\ IF IndexError(km.X, centroids, km_labels, km.n_clusters)
       THEN /\ km_pc' = "raised"
            /\ km_call' = [NoKMeansCall EXCEPT
                              !.op = "update", !.old = centroids, !.labels = km_labels,
                              !.raised = TRUE]
            /\ UNCHANGED centroids
       ELSE \E new \in { new_centroids(km.X, centroids, km_labels, km.n_clusters) } :
            \E centroid_shift \in { MaxShift(centroids, new) } :
                /\ centroids' = new
                /\ km_pc' = AfterRound(centroid_shift < km.tol)
                /\ km_call' = [NoKMeansCall EXCEPT
                                  !.op = "update", !.old = centroids, !.labels = km_labels,
                                  !.shift = centroid_shift]
    /\ UNCHANGED <<km, prev_centroids, km_labels, iteration, exceptKMeans>>

\* the M-step of one round of discovery.py
KMUpdateDiscovery ==
    /\ km_pc = "update"
    /\ km.impl = "discovery"
    /\ \E moved \in { Moved(km.X, km_labels, km.n_clusters) } :
       \E targets \in { Targets(km.X, centroids, km_labels, km.n_clusters) } :
       \E err \in [1..km.n_clusters -> AdamErrors] :
          centroids' = MStep(centroids, moved, targets, err, 1)
    /\ km_pc' = AfterRound(FALSE)
    /\ km_call' = [NoKMeansCall EXCEPT
                      !.op = "update", !.old = centroids, !.labels = km_labels]
    /\ UNCHANGED <<km, prev_centroids, km_labels, iteration, exceptKMeans>>

\* clustering.py: predict(embeddings, confidence_threshold) after fit()
KMPredict ==
    /\ km_pc = "done"
    /\ km.impl = "clustering"
    /\ \E x \in PointPool \cup { centroids[k] : k \in 1..Len(centroids) }, t \in ConfidenceThresholds :
          km_call' = [NoKMeansCall EXCEPT
                         !.op = "predict", !.x = x, !.threshold = t,
                         !.out = predict(centroids, x, t)]
    /\ UNCHANGED <<km, centroids, prev_centroids, km_labels, iteration, km_pc, exceptKMeans>>

\* discovery.py: fit_predict(X) returns predict(X) after fit(X)
KMFitPredict ==
    /\ km_pc = "done"
    /\ km.impl = "discovery"
    /\ km_call' = [NoKMeansCall EXCEPT
                      !.op = "fit_predict", !.out = argmin_dist2(km.X, centroids)]
    /\ UNCHANGED <<km, centroids, prev_centroids, km_labels, iteration, km_pc, exceptKMeans>>

(***************************************************************************)
(* clustering.HierarchyExtractor                                           *)
(***************************************************************************)
\* HierarchyExtractor.compute_norm: the distance from the origin
compute_norm(embedding) == dist(embedding, <<0>>)

\* the upper of the two middle entries (not what torch.median returns)
median_Upper(v) ==
    CHOOSE m \in { v[i] : i \in 1..Len(v) } :
        /\ Cardinality({ i \in 1..Len(v) : v[i] < m }) <= Len(v) \div 2
        /\ Cardinality({ i \in 1..Len(v) : v[i] <= m }) > Len(v) \div 2

\* torch.median: the middle entry in sorted order, the lower one of the two
\* middle entries when the number of entries is even
median(v) ==
    CHOOSE m \in { v[i] : i \in 1..Len(v) } :
        /\ Cardinality({ i \in 1..Len(v) : v[i] < m }) <= (Len(v) - 1) \div 2
        /\ Cardinality({ i \in 1..Len(v) : v[i] <= m }) > (Len(v) - 1) \div 2

\* a centroid on the median is in neither list (not what the code does)
IsMicro_Above(norm, median_norm) == norm > median_norm

\* categorize_depth: the else branch of "if norm < median_norm"
IsMicro(norm, median_norm) == ~(norm < median_norm)

RECURSIVE Entries(_, _, _, _)
\* categorize_depth: the (index, norm) pairs one list gets, in the order of
\* enumerate(norms); indices start at 0
Entries(norms, median_norm, micro, i) ==
    IF i > Len(norms) THEN <<>>
    ELSE (IF (IF micro THEN IsMicro(norms[i], median_norm) ELSE norms[i] < median_norm)
          THEN << <<i - 1, norms[i]>> >>
          ELSE <<>>)
         \o Entries(norms, median_norm, micro, i + 1)

\* HierarchyExtractor.categorize_depth(centroids)
categorize_depth(cs) ==
    Only({ [norms |-> norms, median_norm |-> median(norms),
            macro |-> Entries(norms, median(norms), FALSE, 1),
            micro |-> Entries(norms, median(norms), TRUE, 1)] :
           norms \in { [i \in 1..Len(cs) |-> compute_norm(cs[i])] \o <<>> } })

\* the largest number of centroids
MaxCentroids == 4

\* test_clustering.py: expmap0 of the vectors of length 0.05, 0.08, 0.5 and 0.8
DepthTangents == { <<50>>, <<80>>, <<500>>, <<800>> }

CentroidPool == { expmap0_axis(t) : t \in DepthTangents }

NoDepthCall == [op |-> "init", norms |-> <<>>, median_norm |-> 0, macro |-> <<>>, micro |-> <<>>]

HierarchyInit ==
    /\ hier_centroids \in UNION { [1..n -> CentroidPool] : n \in 1..MaxCentroids }
    /\ hier_call = NoDepthCall

\* the hierarchy extractor when a specification does not use it
HierarchyIdle ==
    /\ hier_centroids = <<>>
    /\ hier_call = NoDepthCall

\* HierarchyExtractor.categorize_depth(centroids)
CategorizeDepth ==
    /\ \E out \in { categorize_depth(hier_centroids) } :
          hier_call' = [op |-> "categorize_depth", norms |-> out.norms,
                        median_norm |-> out.median_norm,
                        macro |-> out.macro, micro |-> out.micro]
    /\ UNCHANGED <<hier_centroids, exceptHierarchy>>

\* one of the centroids changes (the clustering is fitted again)
NewCentroids ==
    /\ \E i \in DOMAIN hier_centroids, c \in CentroidPool :
          hier_centroids' = [hier_centroids EXCEPT ![i] = c]
    /\ hier_call' = NoDepthCall
    /\ UNCHANGED exceptHierarchy

(***************************************************************************)
(* KnowledgeDistiller (distillation/distiller.py). The parameters of a     *)
(* module are one integer, in units of one optimizer step. A tensor        *)
(* carries the set of modules whose parameters autograd has tracked on     *)
(* its way; backward() gives a gradient to exactly those modules.          *)
(***************************************************************************)
Modules ==
    { "teacher_projector", "student_projector", "teacher_classifier", "student_classifier" }

TeacherModules == { "teacher_projector", "teacher_classifier" }

\* __init__: the parameters handed to torch.optim.Adam
optimizer_params == { "student_projector", "student_classifier" }

\* the parameters a module may hold
MaxParam == 2

ParamValues == -MaxParam .. MaxParam

\* the gradient backward() computes for one module: its sign is what the step follows
GradValues == { -1, 1 }

\* how many batches distill_epoch receives
MaxEpochBatches == 2

\* module(input): the modules the output is tracked to, none under torch.no_grad()
Tracked(module, input_leaves, grad_enabled) ==
    IF grad_enabled THEN input_leaves \cup {module} ELSE {}

\* distill_step: the modules total_loss is tracked to
LossLeaves ==
    LET teacher_euclidean == {}
        student_euclidean == {}
        teacher_hyperbolic == Tracked("teacher_projector", teacher_euclidean, FALSE)
        student_hyperbolic == Tracked("student_projector", student_euclidean, TRUE)
        teacher_logits == Tracked("teacher_classifier", teacher_hyperbolic, FALSE)
        student_logits == Tracked("student_classifier", student_hyperbolic, TRUE)
        distill_loss == teacher_logits \cup student_logits
        embed_loss == teacher_hyperbolic \cup student_hyperbolic
    IN  distill_loss \cup embed_loss

\* a batch of texts: <<>> when it is empty, else the gradients its loss will have
TextBatches == { <<>> } \cup { <<g>> : g \in [LossLeaves -> GradValues] }

TextBatchLists == UNION { [1..n -> TextBatches] : n \in 0..MaxEpochBatches }

\* optimizer.zero_grad(): the gradients of the optimizer's parameters are dropped
zero_grad(grads) ==
    [m \in Modules |-> IF m \in optimizer_params THEN <<>> ELSE grads[m]]

\* total_loss.backward(): the gradient g[m] is added to every module the loss is tracked to
backward(grads, g) ==
    [m \in Modules |->
        IF m \in LossLeaves
        THEN << (IF grads[m] = <<>> THEN 0 ELSE grads[m][1]) + g[m] >>
        ELSE grads[m]]

Direction(a) == IF a < 0 THEN -1 ELSE IF a > 0 THEN 1 ELSE 0

AdamStep_Any(p, grad, in_group) == p - 1

\* Adam: a parameter of the optimizer that has a gradient moves one step against it
AdamStep(p, grad, in_group) ==
    IF in_group /\ grad # <<>> THEN p - Direction(grad[1]) ELSE p

\* optimizer.step()
optimizer_step(params, grads) ==
    [m \in Modules |-> AdamStep(params[m], grads[m], m \in optimizer_params)]

\* distill_step(texts): the parameters and gradients it leaves
distill_step(state, texts) ==
    LET after == backward(zero_grad(state.grads), texts[1])
    IN  [params |-> optimizer_step(state.params, after), grads |-> after,
         num_batches |-> state.num_batches + 1]

\* distill_epoch(batches): one distill_step per batch that is not empty
RECURSIVE distill_epoch(_, _, _)
distill_epoch(state, batches, i) ==
    IF i > Len(batches) THEN state
    ELSE IF batches[i] = <<>> THEN distill_epoch(state, batches, i + 1)
    ELSE distill_epoch(distill_step(state, batches[i]), batches, i + 1)

NoDistillCall == [op |-> "init", num_batches |-> 0]

\* KnowledgeDistiller(teacher, student): four freshly initialised modules, no gradients
DistillerInit ==
    /\ kd_params \in [Modules -> { 0, 1 }]
    /\ kd_initial = kd_params
    /\ kd_grads = [m \in Modules |-> <<>>]
    /\ kd_call = NoDistillCall

\* the distiller when a specification does not use it
DistillerIdle ==
    /\ kd_params = <<>>
    /\ kd_initial = <<>>
    /\ kd_grads = <<>>
    /\ kd_call = NoDistillCall

\* KnowledgeDistiller.distill_step(texts)
DistillStep ==
    /\ \E texts \in TextBatches \ { <<>> } :
          \E out \in { distill_step([params |-> kd_params, grads |-> kd_grads,
                                     num_batches |-> 0], texts) } :
             /\ \A m \in Modules : out.params[m] \in ParamValues
             /\ kd_params' = out.params
             /\ kd_grads' = out.grads
             /\ kd_call' = [op |-> "distill_step", num_batches |-> out.num_batches]
    /\ UNCHANGED <<kd_initial, exceptDistiller>>

\* KnowledgeDistiller.distill_epoch(batches)
DistillEpoch ==
    /\ \E batches \in TextBatchLists :
          \E out \in { distill_epoch([params |-> kd_params, grads |-> kd_grads,
                                      num_batches |-> 0], batches, 1) } :
             /\ \A m \in Modules : out.params[m] \in ParamValues
             /\ kd_params' = out.params
             /\ kd_grads' = out.grads
             /\ kd_call' = [op |-> "distill_epoch", num_batches |-> out.num_batches]
    /\ UNCHANGED <<kd_initial, exceptDistiller>>

(***************************************************************************)
(* The two training loops: HypCDTrainer.train_step (training.py) and the   *)
(* batch loop of HypCDTrainingPipeline.train_epoch (training_pipeline.py). *)
(* A training step runs statement by statement; the gradient of the        *)
(* parameters is its norm, in units of 1/Q.                                *)
(***************************************************************************)
Regimes == { "train_step", "train_epoch" }

\* clip_grad_norm_(..., max_norm=1.0)
max_norm == Q

\* the norms loss.backward() may leave on the parameters
GradNorms == { Q \div 2, Q, 2 * Q, 3 * Q }

\* how many batches the train_loader of train_epoch yields
MaxLoader == 2

\* torch.nn.utils.clip_grad_norm_: gradients above max_norm are scaled down to it
clip_grad_norm_(total_norm, bound) == Min(total_norm, bound)

\* the statement that follows loss.backward() in each loop
AfterBackward(regime) == IF regime = "train_step" THEN "clip" ELSE "step"

TrainerInit ==
    /\ tr_regime = None
    /\ tr_pc = "idle"
    /\ tr_grad = 0
    /\ tr_ops = <<>>
    /\ tr_batches = 0
    /\ tr_applied = 0

\* the trainer when a specification does not use it
TrainerIdle == TrainerInit

\* train_step(batch) is called
CallTrainStep ==
    /\ tr_pc = "idle"
    /\ tr_regime' = "train_step"
    /\ tr_batches' = 1
    /\ tr_pc' = "zero_grad"
    /\ tr_ops' = <<>>
    /\ UNCHANGED <<tr_grad, tr_applied, exceptTrainer>>

\* train_epoch(train_loader, epoch) is called; a loader without batches returns at once
CallTrainEpoch ==
    /\ tr_pc = "idle"
    /\ \E n \in 0..MaxLoader :
          /\ tr_batches' = n
          /\ tr_pc' = IF n > 0 THEN "zero_grad" ELSE "idle"
    /\ tr_regime' = "train_epoch"
    /\ tr_ops' = <<>>
    /\ UNCHANGED <<tr_grad, tr_applied, exceptTrainer>>

\* optimizer.zero_grad()
ZeroGrad ==
    /\ tr_pc = "zero_grad"
    /\ tr_grad' = 0
    /\ tr_ops' = <<"zero_grad">>
    /\ tr_pc' = "forward"
    /\ UNCHANGED <<tr_regime, tr_batches, tr_applied, exceptTrainer>>

\* the forward pass and the loss
ForwardLoss ==
    /\ tr_pc = "forward"
    /\ tr_ops' = Append(tr_ops, "forward")
    /\ tr_pc' = "backward"
    /\ UNCHANGED <<tr_regime, tr_grad, tr_batches, tr_applied, exceptTrainer>>

\* loss.backward()
Backward ==
    /\ tr_pc = "backward"
    /\ \E g \in GradNorms : tr_grad' = tr_grad + g
    /\ tr_ops' = Append(tr_ops, "backward")
    /\ tr_pc' = AfterBackward(tr_regime)
    /\ UNCHANGED <<tr_regime, tr_batches, tr_applied, exceptTrainer>>

\* torch.nn.utils.clip_grad_norm_(self.projector.parameters(), max_norm=1.0)
ClipGradNorm ==
    /\ tr_pc = "clip"
    /\ tr_grad' = clip_grad_norm_(tr_grad, max_norm)
    /\ tr_ops' = Append(tr_ops, "clip_grad_norm_")
    /\ tr_pc' = "step"
    /\ UNCHANGED <<tr_regime, tr_batches, tr_applied, exceptTrainer>>

\* optimizer.step(), then the next batch or the return
OptimizerStep ==
    /\ tr_pc = "step"
    /\ tr_applied' = tr_grad
    /\ tr_ops' = Append(tr_ops, "step")
    /\ tr_batches' = tr_batches - 1
    /\ tr_pc' = IF tr_batches > 1 THEN "zero_grad" ELSE "idle"
    /\ UNCHANGED <<tr_regime, tr_grad, exceptTrainer>>

(***************************************************************************)
(* CheckpointManager (training_pipeline.py). The checkpoint directory is   *)
(* the set of its checkpoint_epoch_*.pt files, each with its st_mtime, and *)
(* the two files latest_checkpoint.pt and best_checkpoint.pt. The clock of *)
(* the file system is coarse: two saves in a row may get the same st_mtime.*)
(***************************************************************************)
\* the epochs a checkpoint is saved for
MaxEpoch == 2

\* how many save() calls one manager receives
MaxSaves == 3

\* the values of keep_last_n
MaxKeep == 2

KeepValues == 0..MaxKeep

\* the model state and the optimizer state handed to the n-th save(): training has
\* moved on since the save before
TrainingState(n) == <<n, 100 * n>>

\* how far the clock of the file system moves between two writes
Ticks == { 0, 1 }

\* save: the checkpoint dictionary
Checkpoint(epoch, model_state, optimizer_state) ==
    [epoch |-> epoch, model_state |-> model_state, optimizer_state |-> optimizer_state]

\* torch.save(checkpoint, checkpoint_dir / f"checkpoint_epoch_{epoch}.pt")
WriteEpochFile(files, checkpoint, mtime) ==
    { f \in files : f.epoch # checkpoint.epoch }
        \cup { [epoch |-> checkpoint.epoch, mtime |-> mtime, checkpoint |-> checkpoint] }

\* seq[:stop] of Python, for a sequence of the given length
SliceStop(length, stop) ==
    IF stop < 0 THEN Max(length + stop, 0) ELSE Min(stop, length)

\* _cleanup_old_checkpoints: how many files checkpoints[:-keep_last_n] holds
RemovedCount(n_files, keep_last_n) ==
    IF n_files > keep_last_n THEN SliceStop(n_files, -keep_last_n) ELSE 0

\* _cleanup_old_checkpoints: the files a cleanup may unlink, the first ones in the order
\* of st_mtime (files of equal st_mtime stand in the order glob() has listed them)
Unlinked(files, keep_last_n) ==
    { R \in SUBSET files :
        /\ Cardinality(R) = RemovedCount(Cardinality(files), keep_last_n)
        /\ \A r \in R, f \in files \ R : r.mtime <= f.mtime }

LatestAfterSave_KeepFirst(old, checkpoint) == IF old = <<>> THEN <<checkpoint>> ELSE old

\* torch.save(checkpoint, latest_path)
LatestAfterSave(old, checkpoint) == <<checkpoint>>

\* torch.save(checkpoint, best_path) if is_best
BestAfterSave(old, checkpoint, is_best) == IF is_best THEN <<checkpoint>> ELSE old

NoCheckpointCall ==
    [op |-> "init", path |-> None, epoch |-> 0, checkpoint |-> <<>>, raised |-> FALSE]

\* a checkpoint directory that mkdir has just created
EmptyDirectory ==
    /\ ckpt_files = {}
    /\ ckpt_latest = <<>>
    /\ ckpt_best = <<>>
    /\ ckpt_metadata = <<>>
    /\ ckpt_clock = 0
    /\ ckpt_call = NoCheckpointCall

\* CheckpointManager(checkpoint_dir, keep_last_n) on an empty directory
CheckpointInit ==
    /\ ckpt_keep \in KeepValues
    /\ EmptyDirectory

\* the checkpoint manager when a specification does not use it
CheckpointIdle ==
    /\ ckpt_keep = 0
    /\ EmptyDirectory

\* CheckpointManager.save(epoch, model_state, optimizer_state, ..., is_best): what it
\* does to the directory
SaveFiles(checkpoint, is_best, tick) ==
    \E written \in { WriteEpochFile(ckpt_files, checkpoint, ckpt_clock + tick) } :
       /\ ckpt_clock' = ckpt_clock + tick
       /\ ckpt_best' = BestAfterSave(ckpt_best, checkpoint, is_best)
       /\ ckpt_latest' = LatestAfterSave(ckpt_latest, checkpoint)
       /\ ckpt_metadata' = Append(ckpt_metadata, checkpoint.epoch)
       /\ \E R \in Unlinked(written, ckpt_keep) : ckpt_files' = written \ R
       /\ ckpt_call' = [op |-> "save", path |-> "checkpoint_epoch", epoch |-> checkpoint.epoch,
                        checkpoint |-> <<checkpoint>>, raised |-> FALSE]

\* CheckpointManager.save(...)
Save ==
    /\ Len(ckpt_metadata) < MaxSaves
    /\ \E epoch \in 0..MaxEpoch, s \in { TrainingState(Len(ckpt_metadata) + 1) },
          is_best \in BOOLEAN, tick \in Ticks :
          SaveFiles(Checkpoint(epoch, s[1], s[2]), is_best, tick)
    /\ UNCHANGED <<ckpt_keep, exceptCheckpoint>>

\* load: the checkpoint the file of an epoch holds, <<>> when the file does not exist
EpochFile(files, epoch) ==
    IF \E f \in files : f.epoch = epoch
    THEN << (CHOOSE f \in files : f.epoch = epoch).checkpoint >>
    ELSE <<>>

\* CheckpointManager.load(): the latest checkpoint, FileNotFoundError when there is none
LoadLatest ==
    /\ ckpt_call' = [op |-> "load", path |-> None, epoch |-> 0, checkpoint |-> ckpt_latest,
                     raised |-> (ckpt_latest = <<>>)]
    /\ UNCHANGED <<ckpt_keep, ckpt_files, ckpt_latest, ckpt_best, ckpt_metadata, ckpt_clock,
                   exceptCheckpoint>>

\* CheckpointManager.load(checkpoint_path), for the path save() returned for an epoch
LoadPath ==
    /\ \E epoch \in 0..MaxEpoch :
          \E found \in { EpochFile(ckpt_files, epoch) } :
             ckpt_call' = [op |-> "load", path |-> "checkpoint_epoch", epoch |-> epoch,
                           checkpoint |-> found, raised |-> (found = <<>>)]
    /\ UNCHANGED <<ckpt_keep, ckpt_files, ckpt_latest, ckpt_best, ckpt_metadata, ckpt_clock,
                   exceptCheckpoint>>

\* CheckpointManager.get_latest_checkpoint()
GetLatestCheckpoint ==
    /\ ckpt_call' = [op |-> "get_latest_checkpoint",
                     path |-> IF ckpt_latest = <<>> THEN None ELSE "latest_checkpoint.pt",
                     epoch |-> 0, checkpoint |-> <<>>, raised |-> FALSE]
    /\ UNCHANGED <<ckpt_keep, ckpt_files, ckpt_latest, ckpt_best, ckpt_metadata, ckpt_clock,
                   exceptCheckpoint>>

(***************************************************************************)
(* HypCDTrainingPipeline.train and its TrainingMonitor                     *)
(* (training_pipeline.py). A dictionary is a function from its keys; the   *)
(* validation accuracy is an integer that an epoch leaves as it is or      *)
(* raises by one. The pipeline saves through the CheckpointManager above.  *)
(***************************************************************************)
\* the largest config.epochs
MaxTrainEpochs == 11

\* train: self.monitor.should_stop_early(patience=10)
Patience == 10

\* TrainingConfig.keep_last_n
KeepDefault == 3

\* dict.get(key, default)
Get(dict, key, default) == IF key \in DOMAIN dict THEN dict[key] ELSE default

\* validate(): {'loss': avg_loss, 'accuracy': accuracy}
ValMetrics(accuracy) == [loss |-> 0, accuracy |-> accuracy]

\* should_stop_early: the last `patience` entries of metrics_history
RecentEntries(history, patience) ==
    SubSeq(history, Len(history) - patience + 1, Len(history))

\* should_stop_early: m.get('validation', {}).get(metric, 0) for the recent entries; an
\* entry whose validation is None has no get()
RecentMetrics(recent, metric) ==
    [i \in DOMAIN recent |-> Get(recent[i][1], metric, 0)]

\* TrainingMonitor.should_stop_early(patience, metric): whether it raised AttributeError,
\* and what it returned
should_stop_early(history, patience, metric) ==
    IF Len(history) < patience THEN [raised |-> FALSE, stop |-> FALSE]
    ELSE \* bind the window once
         Only({ IF \E i \in DOMAIN recent : recent[i] = <<>>
                THEN [raised |-> TRUE, stop |-> FALSE]
                ELSE Only({ [raised |-> FALSE,
                             stop |-> \A i \in 2..Len(metrics) : metrics[i] <= metrics[1]]
                            : metrics \in { RecentMetrics(recent, metric) \o <<>> } })
                : recent \in { RecentEntries(history, patience) } })

\* log_epoch: best_metrics after the validation metrics of an epoch
BestMetrics(best, val_metrics) ==
    IF val_metrics = <<>> THEN best
    ELSE [key \in DOMAIN val_metrics[1] |->
             IF key \notin DOMAIN best \/ val_metrics[1][key] > Get(best, key, 0)
             THEN val_metrics[1][key] ELSE best[key]]

\* the configurations of a run: epochs, checkpoint_frequency, validate_frequency, and
\* whether prepare_data has left a validation loader
PipelineConfigs ==
    [epochs : { 3, MaxTrainEpochs }, checkpoint_frequency : { 2, 5 },
     validate_frequency : { 1, 2 }, val_loader : BOOLEAN]

PipelineInit ==
    /\ pl_config \in PipelineConfigs
    /\ pl_pc = "idle"
    /\ pl_epoch = 0
    /\ pl_history = <<>>
    /\ pl_best_val = 0
    /\ pl_best_metrics = <<>>

\* the pipeline when a specification does not use it
PipelineIdle ==
    /\ pl_config = None
    /\ pl_pc = "idle"
    /\ pl_epoch = 0
    /\ pl_history = <<>>
    /\ pl_best_val = 0
    /\ pl_best_metrics = <<>>

\* train(data_loader_fn): the model and the data are set up, start_epoch = 0
TrainCall ==
    /\ pl_pc = "idle"
    /\ pl_pc' = "loop"
    /\ pl_epoch' = 0
    /\ UNCHANGED <<pl_config, pl_history, pl_best_val, pl_best_metrics, checkpointVars,
                   exceptPipeline>>

\* the accuracies validate() may find in an epoch: the best one so far, or one more
Accuracies ==
    { pl_best_val, pl_best_val + 1 }

\* train: the validation metrics of the epoch, <<>> for None
ValidationOf(epoch) ==
    IF pl_config.val_loader /\ epoch % pl_config.validate_frequency = 0
    THEN { <<ValMetrics(a)>> : a \in Accuracies }
    ELSE { <<>> }

\* train: where the loop stands after the early-stopping check of an epoch
AfterEpoch(verdict, epoch) ==
    IF verdict.raised THEN "raised"
    ELSE IF verdict.stop THEN "finish"
    ELSE IF epoch + 1 < pl_config.epochs THEN "loop" ELSE "finish"

\* train: one round of the training loop
TrainEpoch ==
    /\ pl_pc = "loop"
    /\ pl_epoch < pl_config.epochs
    /\ \E val_metrics \in ValidationOf(pl_epoch) :
          \E is_best \in { val_metrics # <<>> /\ Get(val_metrics[1], "accuracy", 0) > pl_best_val },
             history \in { Append(pl_history, val_metrics) } :
             /\ pl_history' = history
             /\ pl_best_metrics' = BestMetrics(pl_best_metrics, val_metrics)
             /\ pl_best_val' = IF is_best THEN val_metrics[1].accuracy ELSE pl_best_val
             /\ IF pl_epoch % pl_config.checkpoint_frequency = 0 \/ is_best
                THEN SaveFiles(Checkpoint(pl_epoch, TrainingState(pl_epoch + 1)[1],
                                          TrainingState(pl_epoch + 1)[2]), is_best, 1)
                ELSE UNCHANGED <<ckpt_files, ckpt_latest, ckpt_best, ckpt_metadata,
                                 ckpt_clock, ckpt_call>>
             /\ \E verdict \in { should_stop_early(history, Patience, "val_accuracy") } :
                   /\ pl_pc' = AfterEpoch(verdict, pl_epoch)
                   /\ pl_epoch' = IF AfterEpoch(verdict, pl_epoch) = "loop"
                                  THEN pl_epoch + 1 ELSE pl_epoch
    /\ UNCHANGED <<pl_config, ckpt_keep, exceptPipeline>>

\* train: the metrics history is written and best_metrics returned
TrainReturn ==
    /\ pl_pc = "finish"
    /\ pl_pc' = "returned"
    /\ UNCHANGED <<pl_config, pl_epoch, pl_history, pl_best_val, pl_best_metrics,
                   checkpointVars, exceptPipeline>>

(***************************************************************************)
(* POST /training/train (domains/training/router.py) and the Celery task   *)
(* train_model_task (tasks/training_tasks.py). Each request has its own    *)
(* row of training_jobs; the endpoint and the task write its status one    *)
(* statement at a time, in any order the scheduler allows.                 *)
(***************************************************************************)
\* how many requests are made
NumJobs == 2

Jobs == 1..NumJobs

\* @shared_task(bind=True, max_retries=3, ...)
max_retries == 3

\* self.retry(exc=exc) once the retries are used up: it raises MaxRetriesExceededError,
\* or the exception it was given
RetryRaises == { "MaxRetriesExceededError", "exc" }

\* _update_job_status(job_id, status): the status column after the update
update_status(table, job_id, status) == [table EXCEPT ![job_id] = status]

JobsInit ==
    /\ tj_status = [j \in Jobs |-> None]
    /\ ep_pc = [j \in Jobs |-> "start"]
    /\ task_pc = [j \in Jobs |-> "none"]
    /\ task_retries = [j \in Jobs |-> 0]

\* the endpoint and the task when a specification does not use them
JobsIdle ==
    /\ tj_status = <<>>
    /\ ep_pc = <<>>
    /\ task_pc = <<>>
    /\ task_retries = <<>>

\* train_model_async: client.table("training_jobs").insert(job_data)
EpInsert(j) ==
    /\ ep_pc[j] = "start"
    /\ tj_status' = update_status(tj_status, j, "pending")
    /\ ep_pc' = [ep_pc EXCEPT ![j] = "inserted"]
    /\ UNCHANGED <<task_pc, task_retries, exceptJobs>>

\* train_model_async: train_model_task.delay(...)
EpDispatch(j) ==
    /\ ep_pc[j] = "inserted"
    /\ task_pc' = [task_pc EXCEPT ![j] = "sent"]
    /\ ep_pc' = [ep_pc EXCEPT ![j] = "dispatched"]
    /\ UNCHANGED <<tj_status, task_retries, exceptJobs>>

\* train_model_async: delay() raises (no broker): the handler answers 500
EpDispatchFails(j) ==
    /\ ep_pc[j] = "inserted"
    /\ ep_pc' = [ep_pc EXCEPT ![j] = "error"]
    /\ UNCHANGED <<tj_status, task_pc, task_retries, exceptJobs>>

\* train_model_async: update({"celery_task_id": task.id, "status": "queued"}), return
EpUpdateQueued(j) ==
    /\ ep_pc[j] = "dispatched"
    /\ tj_status' = update_status(tj_status, j, "queued")
    /\ ep_pc' = [ep_pc EXCEPT ![j] = "returned"]
    /\ UNCHANGED <<task_pc, task_retries, exceptJobs>>

\* train_model_task: a worker takes the message; _update_job_status(job_id, "running")
TaskStart(j) ==
    /\ task_pc[j] = "sent"
    /\ tj_status' = update_status(tj_status, j, "running")
    /\ task_pc' = [task_pc EXCEPT ![j] = "running"]
    /\ UNCHANGED <<ep_pc, task_retries, exceptJobs>>

\* train_model_task: train() and export_model() return;
\* _update_job_status(job_id, status="completed", ...)
TaskSucceed(j) ==
    /\ task_pc[j] = "running"
    /\ tj_status' = update_status(tj_status, j, "completed")
    /\ task_pc' = [task_pc EXCEPT ![j] = "done"]
    /\ UNCHANGED <<ep_pc, task_retries, exceptJobs>>

\* train_model_task: an exception, and self.retry(exc=exc) sends the task again
TaskRetry(j) ==
    /\ task_pc[j] = "running"
    /\ task_retries[j] < max_retries
    /\ task_retries' = [task_retries EXCEPT ![j] = @ + 1]
    /\ task_pc' = [task_pc EXCEPT ![j] = "sent"]
    /\ UNCHANGED <<tj_status, ep_pc, exceptJobs>>

\* train_model_task: the status after an exception when the retries are used up
AfterRetries(status, raises) ==
    IF raises = "MaxRetriesExceededError" THEN "failed" ELSE status

\* train_model_task: an exception when the retries are used up
TaskGiveUp(j) ==
    /\ task_pc[j] = "running"
    /\ task_retries[j] = max_retries
    /\ \E raises \in RetryRaises :
          tj_status' = update_status(tj_status, j, AfterRetries(tj_status[j], raises))
    /\ task_pc' = [task_pc EXCEPT ![j] = "done"]
    /\ UNCHANGED <<ep_pc, task_retries, exceptJobs>>

(***************************************************************************)
(* The polling worker (apps/worker/main.py). Every worker runs the loop of *)
(* main() one database call at a time; a conditional update is one atomic  *)
(* statement of the database.                                              *)
(***************************************************************************)
\* how many workers poll
NumWorkers == 2

Workers == 1..NumWorkers

\* how many rows training_jobs receives
NumPending == 2

PendingJobs == 1..NumPending

\* the claim: .eq("id", job_id).eq("status", "pending")
ClaimCondition_Any(status) == TRUE

ClaimCondition(status) == status = "pending"

WorkerInit ==
    /\ wj_status = [j \in PendingJobs |-> None]
    /\ wj_logs = [j \in PendingJobs |-> None]
    /\ wj_runs = [j \in PendingJobs |-> 0]
    /\ w_pc = [w \in Workers |-> "poll"]
    /\ w_job = [w \in Workers |-> 0]
    /\ w_last = [w \in Workers |-> "started"]

\* the worker when a specification does not use it
WorkerIdle ==
    /\ wj_status = <<>>
    /\ wj_logs = <<>>
    /\ wj_runs = <<>>
    /\ w_pc = <<>>
    /\ w_job = <<>>
    /\ w_last = <<>>

\* a client inserts a row with status "pending"
Submit(j) ==
    /\ wj_status[j] = None
    /\ wj_status' = [wj_status EXCEPT ![j] = "pending"]
    /\ wj_logs' = [wj_logs EXCEPT ![j] = "queued"]
    /\ UNCHANGED <<wj_runs, w_pc, w_job, w_last, exceptWorker>>

\* main: select("*").eq("status", "pending").limit(1) has found a row
Poll(w) ==
    /\ w_pc[w] = "poll"
    /\ \E j \in PendingJobs :
          /\ wj_status[j] = "pending"
          /\ w_job' = [w_job EXCEPT ![w] = j]
    /\ w_pc' = [w_pc EXCEPT ![w] = "claim"]
    /\ UNCHANGED <<wj_status, wj_logs, wj_runs, w_last, exceptWorker>>

\* main: the conditional update to "processing"; without a row in the response the
\* worker goes back to polling
Claim(w) ==
    /\ w_pc[w] = "claim"
    /\ IF ClaimCondition(wj_status[w_job[w]])
       THEN /\ wj_status' = [wj_status EXCEPT ![w_job[w]] = "processing"]
            /\ w_pc' = [w_pc EXCEPT ![w] = "train"]
            /\ w_last' = [w_last EXCEPT ![w] = "claimed"]
            /\ wj_runs' = [wj_runs EXCEPT ![w_job[w]] = @ + 1]
       ELSE /\ w_pc' = [w_pc EXCEPT ![w] = "poll"]
            /\ w_last' = [w_last EXCEPT ![w] = "already claimed"]
            /\ UNCHANGED <<wj_status, wj_runs>>
    /\ UNCHANGED <<wj_logs, w_job, exceptWorker>>

\* main: the conditional update raises; the outer handler logs the error and the loop
\* goes on
ClaimRaises(w) ==
    /\ w_pc[w] = "claim"
    /\ w_pc' = [w_pc EXCEPT ![w] = "poll"]
    /\ w_last' = [w_last EXCEPT ![w] = "loop error"]
    /\ UNCHANGED <<wj_status, wj_logs, wj_runs, w_job, exceptWorker>>

\* main: train_model(job_id, user_id) has returned its summary; the job is completed
TrainModelReturns(w) ==
    /\ w_pc[w] = "train"
    /\ wj_status' = [wj_status EXCEPT ![w_job[w]] = "completed"]
    /\ wj_logs' = [wj_logs EXCEPT ![w_job[w]] = "summary"]
    /\ w_pc' = [w_pc EXCEPT ![w] = "poll"]
    /\ w_last' = [w_last EXCEPT ![w] = "completed"]
    /\ UNCHANGED <<wj_runs, w_job, exceptWorker>>

\* main: train_model(job_id, user_id) has raised; the job is failed, with str(e) as logs
TrainModelRaises(w) ==
    /\ w_pc[w] = "train"
    /\ wj_status' = [wj_status EXCEPT ![w_job[w]] = "failed"]
    /\ wj_logs' = [wj_logs EXCEPT ![w_job[w]] = "str(e)"]
    /\ w_pc' = [w_pc EXCEPT ![w] = "poll"]
    /\ w_last' = [w_last EXCEPT ![w] = "failed"]
    /\ UNCHANGED <<wj_runs, w_job, exceptWorker>>

\* main: train_model(job_id, user_id) has raised and the update to "failed" raises as
\* well; the outer handler logs the error and the loop goes on
FailedUpdateRaises(w) ==
    /\ w_pc[w] = "train"
    /\ w_pc' = [w_pc EXCEPT ![w] = "poll"]
    /\ w_last' = [w_last EXCEPT ![w] = "loop error"]
    /\ UNCHANGED <<wj_status, wj_logs, wj_runs, w_job, exceptWorker>>

(***************************************************************************)
(* HypCDClassifier.discover_categories (hypcd.py). The fit is the one of   *)
(* clustering.HyperbolicKMeans above, run round by round; the descriptors  *)
(* are built from predict() on the same embeddings.                        *)
(***************************************************************************)
\* the embedder is a function of the text: a text has one embedding
EmbeddingOf ==
    [rent |-> <<500>>, lease |-> <<550>>, flat |-> <<450>>,
     cafe |-> <<-500>>, diner |-> <<-550>>, misc |-> <<100>>]

\* embeddings = self.embedder.embed_batch(texts), points of the ball on one axis
Embeddings(texts) == [i \in 1..Len(texts) |-> EmbeddingOf[texts[i]]] \o <<>>

\* the text batches: fewer texts than clusters, the same text twice, repeated texts,
\* one text per group, and a group of more than five texts
TextLists ==
    { <<"rent">>,
      <<"rent", "rent">>,
      <<"rent", "rent", "cafe">>,
      <<"rent", "cafe", "misc">>,
      <<"rent", "lease", "flat", "rent", "lease", "flat", "cafe">> }

\* the rounds a fit gets; every fit of these batches leaves the loop by its
\* convergence test (FitsConverged)
DiscoverMaxIter == 5

\* sample_texts: cluster_texts[:5]
MaxSamples == 5

\* confidence_threshold = 0.7
DefaultThreshold == RoundDiv(7 * One, 10)

DiscoverCalls == { [texts |-> t, n_clusters |-> k] : t \in TextLists, k \in 1..MaxClusters }

\* tensor.mean() of a one-dimensional tensor: nan for the empty tensor
TensorMean(v) ==
    IF v = <<>> THEN [nan |-> TRUE, value |-> 0]
    ELSE [nan |-> FALSE, value |-> SumSeq(v) \div Len(v)]

\* cluster_texts[:5]
SampleTexts(cluster_texts) == SubSeq(cluster_texts, 1, SliceStop(Len(cluster_texts), MaxSamples))

\* kmeans.predict(embeddings): the labels and the confidences of the rows
PredictAll(cs, X) ==
    [i \in 1..Len(X) |-> predict(cs, X[i], DefaultThreshold)] \o <<>>

\* the dictionary of cluster k (cluster_id k - 1) of discover_categories
Descriptor(texts, cs, out, k) ==
    \* mask = labels == k
    LET row_labels == [i \in 1..Len(out) |-> out[i].labels]
        row_confidence == [i \in 1..Len(out) |-> out[i].confidence]
        cluster_texts == Masked(texts, row_labels, k)
    IN  [cluster_id |-> k - 1,
         centroid |-> cs[k],
         sample_texts |-> SampleTexts(cluster_texts),
         confidence |-> TensorMean(Masked(row_confidence, row_labels, k)),
         count |-> Len(cluster_texts)]

\* the loop over range(n_clusters)
Discovered(texts, cs, out, n_clusters) ==
    [k \in 1..n_clusters |-> Descriptor(texts, cs, out, k)] \o <<>>

DiscoverInit ==
    /\ dc_call \in DiscoverCalls
    /\ km = [impl |-> "clustering", X |-> Embeddings(dc_call.texts),
             n_clusters |-> dc_call.n_clusters, max_iter |-> DiscoverMaxIter, tol |-> Tol]
    /\ centroids = <<>>
    /\ prev_centroids = <<>>
    /\ km_labels = <<>>
    /\ iteration = 0
    /\ km_pc = "new"
    /\ km_call = NoKMeansCall
    /\ dc_pc = "fit"
    /\ dc_labels = <<>>
    /\ dc_discovered = <<>>

\* discover_categories when a specification does not use it
DiscoverIdle ==
    /\ dc_call = None
    /\ dc_pc = "idle"
    /\ dc_labels = <<>>
    /\ dc_discovered = <<>>

\* discover_categories: fit has returned; predict and the list of descriptors
DiscoverReturn ==
    /\ dc_pc = "fit"
    /\ km_pc = "done"
    /\ \E out \in { PredictAll(centroids, km.X) } :
          /\ dc_labels' = [i \in 1..Len(out) |-> out[i].labels]
          /\ dc_discovered' = Discovered(dc_call.texts, centroids, out, dc_call.n_clusters)
    /\ dc_pc' = "returned"
    /\ UNCHANGED <<dc_call, kmeansVars, exceptKMeansDiscover>>

\* discover_categories: the error of fit leaves through discover_categories
DiscoverRaise ==
    /\ dc_pc = "fit"
    /\ km_pc = "raised"
    /\ dc_pc' = "raised"
    /\ UNCHANGED <<dc_call, dc_labels, dc_discovered, kmeansVars, exceptKMeansDiscover>>

(***************************************************************************)
(* Specifications                                                          *)
(***************************************************************************)
Init ==
    TablesOff /\ ClassifierInit /\ SingletonIdle /\ ProjectorIdle /\ KMeansIdle /\ HierarchyIdle
    /\ DistillerIdle /\ TrainerIdle /\ CheckpointIdle /\ PipelineIdle /\ JobsIdle /\ WorkerIdle /\ DiscoverIdle

Next == PredictBatch \/ Predict \/ UpdateAnchors \/ LoadStateDict

Spec == Init /\ [][Next]_vars

InitSingleton ==
    TablesOff /\ ClassifierIdle /\ SingletonInit /\ ProjectorIdle /\ KMeansIdle /\ HierarchyIdle
    /\ DistillerIdle /\ TrainerIdle /\ CheckpointIdle /\ PipelineIdle /\ JobsIdle /\ WorkerIdle /\ DiscoverIdle

NextSingleton ==
    \/ \E t \in Callers : Call(t)
    \/ \E t \in Callers : Check1(t)
    \/ \E t \in Callers : Acquire(t)
    \/ \E t \in Callers : Check2(t)
    \/ \E t \in Callers : ConstructBegin(t)
    \/ \E t \in Callers : ConstructReturn(t)
    \/ \E t \in Callers : ConstructRaise(t)
    \/ \E t \in Callers : Assign(t)
    \/ \E t \in Callers : Except(t)
    \/ \E t \in Callers : Release(t)
    \/ \E t \in Callers : Return(t)

SpecSingleton == InitSingleton /\ [][NextSingleton]_vars

\* a thread inside get_classifier() goes on running
ThreadStep(t) ==
    \/ Check1(t) \/ Acquire(t) \/ Check2(t) \/ ConstructBegin(t) \/ ConstructReturn(t)
    \/ Assign(t) \/ Except(t) \/ Release(t) \/ Return(t)

SpecSingletonFair == SpecSingleton /\ \A t \in Callers : WF_vars(ThreadStep(t))

InitProjector ==
    TablesOff /\ ClassifierIdle /\ SingletonIdle /\ ProjectorInit /\ KMeansIdle /\ HierarchyIdle
    /\ DistillerIdle /\ TrainerIdle /\ CheckpointIdle /\ PipelineIdle /\ JobsIdle /\ WorkerIdle /\ DiscoverIdle

NextProjector == Forward \/ ProjectorLoad

SpecProjector == InitProjector /\ [][NextProjector]_vars

InitKMeans ==
    TablesOn /\ ClassifierIdle /\ SingletonIdle /\ ProjectorIdle /\ KMeansInit /\ HierarchyIdle
    /\ DistillerIdle /\ TrainerIdle /\ CheckpointIdle /\ PipelineIdle /\ JobsIdle /\ WorkerIdle /\ DiscoverIdle

NextKMeans ==
    KMFit \/ KMAssign \/ KMUpdateClustering \/ KMUpdateDiscovery \/ KMPredict \/ KMFitPredict

SpecKMeans == InitKMeans /\ [][NextKMeans]_vars

\* a call of fit() that has started runs on until it returns or raises
FitStep == KMFit \/ KMAssign \/ KMUpdateClustering \/ KMUpdateDiscovery

SpecKMeansFair == SpecKMeans /\ WF_vars(FitStep)

InitHierarchy ==
    TablesOn /\ ClassifierIdle /\ SingletonIdle /\ ProjectorIdle /\ KMeansIdle /\ HierarchyInit
    /\ DistillerIdle /\ TrainerIdle /\ CheckpointIdle /\ PipelineIdle /\ JobsIdle /\ WorkerIdle /\ DiscoverIdle

NextHierarchy == CategorizeDepth \/ NewCentroids

SpecHierarchy == InitHierarchy /\ [][NextHierarchy]_vars

InitDistiller ==
    TablesOff /\ ClassifierIdle /\ SingletonIdle /\ ProjectorIdle /\ KMeansIdle /\ HierarchyIdle
    /\ DistillerInit /\ TrainerIdle /\ CheckpointIdle /\ PipelineIdle /\ JobsIdle /\ WorkerIdle /\ DiscoverIdle

NextDistiller == DistillStep \/ DistillEpoch

SpecDistiller == InitDistiller /\ [][NextDistiller]_vars

InitTrainer ==
    TablesOff /\ ClassifierIdle /\ SingletonIdle /\ ProjectorIdle /\ KMeansIdle /\ HierarchyIdle
    /\ DistillerIdle /\ TrainerInit /\ CheckpointIdle /\ PipelineIdle /\ JobsIdle /\ WorkerIdle /\ DiscoverIdle

NextTrainer ==
    \/ CallTrainStep
    \/ CallTrainEpoch
    \/ ZeroGrad
    \/ ForwardLoss
    \/ Backward
    \/ ClipGradNorm
    \/ OptimizerStep

SpecTrainer == InitTrainer /\ [][NextTrainer]_vars

InitCheckpoint ==
    TablesOff /\ ClassifierIdle /\ SingletonIdle /\ ProjectorIdle /\ KMeansIdle /\ HierarchyIdle
    /\ DistillerIdle /\ TrainerIdle /\ CheckpointInit /\ PipelineIdle /\ JobsIdle /\ WorkerIdle /\ DiscoverIdle

NextCheckpoint == Save \/ LoadLatest \/ LoadPath \/ GetLatestCheckpoint

SpecCheckpoint == InitCheckpoint /\ [][NextCheckpoint]_vars

\* HypCDTrainingPipeline(config): the checkpoint manager has the default keep_last_n
InitPipeline ==
    TablesOff /\ ClassifierIdle /\ SingletonIdle /\ ProjectorIdle /\ KMeansIdle /\ HierarchyIdle
    /\ DistillerIdle /\ TrainerIdle /\ ckpt_keep = KeepDefault /\ EmptyDirectory
    /\ PipelineInit /\ JobsIdle /\ WorkerIdle /\ DiscoverIdle

NextPipeline == TrainCall \/ TrainEpoch \/ TrainReturn

SpecPipeline == InitPipeline /\ [][NextPipeline]_vars

InitJobs ==
    TablesOff /\ ClassifierIdle /\ SingletonIdle /\ ProjectorIdle /\ KMeansIdle /\ HierarchyIdle
    /\ DistillerIdle /\ TrainerIdle /\ CheckpointIdle /\ PipelineIdle /\ JobsInit /\ WorkerIdle /\ DiscoverIdle

NextJobs ==
    \/ \E j \in Jobs : EpInsert(j)
    \/ \E j \in Jobs : EpDispatch(j)
    \/ \E j \in Jobs : EpDispatchFails(j)
    \/ \E j \in Jobs : EpUpdateQueued(j)
    \/ \E j \in Jobs : TaskStart(j)
    \/ \E j \in Jobs : TaskSucceed(j)
    \/ \E j \in Jobs : TaskRetry(j)
    \/ \E j \in Jobs : TaskGiveUp(j)

SpecJobs == InitJobs /\ [][NextJobs]_vars

InitWorker ==
    TablesOff /\ ClassifierIdle /\ SingletonIdle /\ ProjectorIdle /\ KMeansIdle /\ HierarchyIdle
    /\ DistillerIdle /\ TrainerIdle /\ CheckpointIdle /\ PipelineIdle /\ JobsIdle /\ WorkerInit /\ DiscoverIdle

NextWorker ==
    \/ \E j \in PendingJobs : Submit(j)
    \/ \E w \in Workers : Poll(w)
    \/ \E w \in Workers : Claim(w)
    \/ \E w \in Workers : ClaimRaises(w)
    \/ \E w \in Workers : TrainModelReturns(w)
    \/ \E w \in Workers : TrainModelRaises(w)
    \/ \E w \in Workers : FailedUpdateRaises(w)

SpecWorker == InitWorker /\ [][NextWorker]_vars

\* train_model ends, it returns or raises, and the worker goes through its handler
TrainModelEnds(w) == TrainModelReturns(w) \/ TrainModelRaises(w) \/ FailedUpdateRaises(w)

SpecWorkerFair == SpecWorker /\ \A w \in Workers : WF_vars(TrainModelEnds(w))

InitDiscover ==
    TablesOn /\ ClassifierIdle /\ SingletonIdle /\ ProjectorIdle /\ DiscoverInit /\ HierarchyIdle
    /\ DistillerIdle /\ TrainerIdle /\ CheckpointIdle /\ PipelineIdle /\ JobsIdle /\ WorkerIdle

NextDiscover ==
    \/ KMFit
    \/ KMAssign
    \/ KMUpdateClustering
    \/ DiscoverReturn
    \/ DiscoverRaise

SpecDiscover == InitDiscover /\ [][NextDiscover]_vars

(***************************************************************************)
(* Properties of predict, predict_batch and update_anchors                 *)
(***************************************************************************)
IsPredictCall == call.op \in {"predict", "predict_batch"}

\* the indices of the last call's texts that the rule table matches
RuleIndices == { i \in 1..Len(call.arg) : memo.rule[CandidateOf(call.arg[i])] # None }

\* the indices of the last call's texts that take the model path
ModelIndices == (1..Len(call.arg)) \ RuleIndices

Range(f) == { f[i] : i \in DOMAIN f }

\* C1: a text whose cleaned form matches a rule keyword gets the rule's category
\* with confidence exactly 1.0, whatever the weights and the anchors are;
\* "Netflix Subscription" gets Entertainment.
C1_RuleMatchIsCertain ==
    IsPredictCall =>
        \A i \in 1..Len(call.arg) :
            LET cleaned == memo.cleaned[call.arg[i]]
            IN  (cleaned # "" /\ RulePredict(cleaned) # None) =>
                    /\ call.out.results[i].category = RulePredict(cleaned)
                    /\ call.out.results[i].confidence = One
                    /\ (call.arg[i] = "Netflix Subscription"
                            => call.out.results[i].category = "Entertainment")

\* a rule match returned while the weights favour Salary and the anchors were corrected
C1_Witness ==
    /\ call.op = "predict_batch"
    /\ \E i \in 1..Len(call.arg) :
          /\ call.arg[i] = "Netflix Subscription"
          /\ call.out.results[i].category = "Entertainment"
    /\ weights.classifier = Cls(4, 3 * Q)
    /\ anchors # initialize_anchors

C3_OneBackendCall ==
    (call.op = "predict_batch" /\ Len(call.arg) >= 1) => Len(call.out.backend_calls) = 1

C5_ModelConfidenceBelowOne ==
    IsPredictCall =>
        \A i \in ModelIndices :
            /\ call.out.results[i].confidence >= 0
            /\ call.out.results[i].confidence < One

\* a model-path result whose confidence is above one half
C5_Witness ==
    /\ IsPredictCall
    /\ \E i \in ModelIndices : 2 * call.out.results[i].confidence > One

\* C6: an update_anchors call leaves the anchor of every category that is no key
\* of its argument as it was, and removes no anchor.
C6_UpdateAnchorsFrame ==
    [][ call'.op = "update_anchors" =>
            \A c \in DOMAIN anchors :
                /\ c \in DOMAIN anchors'
                /\ (c \notin DOMAIN call'.arg => anchors'[c] = anchors[c]) ]_vars

\* update_anchors({"Food": ["swiggy order"]}) changed Food and nothing else
C6_Witness ==
    /\ call.op = "update_anchors"
    /\ DOMAIN call.arg = {"Food"} /\ call.arg["Food"] = <<"swiggy order">>
    /\ anchors["Food"] # initialize_anchors["Food"]
    /\ DOMAIN anchors = DOMAIN initialize_anchors
    /\ \A c \in (DOMAIN anchors) \ {"Food"} : anchors[c] = initialize_anchors[c]

\* C7: the anchor of an updated category is the mean backend embedding of the
\* cleaned non-empty texts just supplied; it is the one a freshly initialised
\* classifier would get from the same update, and repeating the update changes
\* nothing.
C7_UpdateAnchorsReplaces ==
    [][ call'.op = "update_anchors" =>
            /\ \A c \in DOMAIN call'.arg :
                  memo.valid[call'.arg[c]] # <<>> =>
                     /\ anchors'[c] = Mean(backend_embed_batch(memo.valid[call'.arg[c]]))
                     /\ anchors'[c] = update_anchors(initialize_anchors, call'.arg)[c]
            /\ update_anchors(anchors', call'.arg) = anchors' ]_vars

\* an anchor that had been corrected before was replaced by a second correction
C7_Witness ==
    /\ call.op = "update_anchors"
    /\ "Food" \in DOMAIN call.arg
    /\ call.arg["Food"] = <<"zomato payment", "", "cafe 1234">>
    /\ anchors["Food"] = Mean(<<BackendEmbed("ZOMATO"), BackendEmbed("CAFE")>>)
    /\ "Misc" \in DOMAIN anchors
    /\ "Misc" \notin DOMAIN call.arg

\* C8: the outcome of a prediction is the one the same weights give with the
\* anchors of a freshly initialised classifier, whatever update_anchors did before.
C8_AnchorsDoNotInfluence ==
    IsPredictCall =>
        call.out = predict_batch([weights |-> weights, tensor |-> tensor,
                                  anchors |-> initialize_anchors], call.arg)

\* a model-path prediction made after the anchors were corrected
C8_Witness ==
    /\ IsPredictCall /\ tensor
    /\ ModelIndices # {}
    /\ anchors # initialize_anchors

\* C11: predict_batch(texts) returns one result per text, in the order of the
\* texts: result i is the result the same classifier gives for texts[i] alone,
\* whether texts[i] matched a rule or went to the model, and its category is
\* one of classifier.labels.
C11_ResultsAlignedWithTexts ==
    IsPredictCall =>
        /\ Len(call.out.results) = Len(call.arg)
        /\ \A i \in 1..Len(call.arg) :
              /\ call.out.results[i].category
                    = predict_batch(Self, <<call.arg[i]>>).results[1].category
              /\ call.out.results[i].confidence
                    = predict_batch(Self, <<call.arg[i]>>).results[1].confidence
              /\ (tensor => call.out.results[i].embedding
                              = predict_batch(Self, <<call.arg[i]>>).results[1].embedding)
              /\ call.out.results[i].category \in Range(labels)
              /\ (i \in RuleIndices => call.out.results[i].category = memo.rule[CandidateOf(call.arg[i])])

\* a rule-matched text ahead of a model-classified one, each with its own result
C11_Witness ==
    /\ call.op = "predict_batch" /\ tensor
    /\ Len(call.arg) = 2
    /\ 1 \in RuleIndices /\ 2 \in ModelIndices
    /\ call.out.results[1].confidence = One
    /\ call.out.results[2].confidence < One
    /\ call.out.results[2].embedding = memo.embedded[weights.projector, CandidateOf(call.arg[2])]

(***************************************************************************)
(* Properties of the K-means clusterers                                    *)
(***************************************************************************)
\* the clusters the last assignment step gave no point
EmptyClusters == { k \in 1..km.n_clusters : Masked(km.X, km_call.labels, k) = <<>> }

C12_Raised == km_call.op = "update" /\ km_call.raised /\ km_pc = "raised"

\* fit() has returned or raised
FitEnded == km_pc \in {"done", "raised"}

\* at most max_iter rounds are entered; a round of clustering.py whose shift is
\* below tol is the last; discovery.py leaves the loop at the assignment step
\* that finds the shift of the round before below tol
C13_RoundsBounded ==
    /\ iteration <= km.max_iter
    /\ (km.impl = "clustering" /\ km_call.op = "update" /\ ~km_call.raised
            /\ km_call.shift < km.tol) => km_pc = "done"
    /\ (km.impl = "discovery" /\ km_call.op = "assign" /\ km_call.old # <<>>
            /\ km_call.shift < km.tol) => km_pc = "done"
    /\ (km_pc = "done" /\ km_call.op \in {"update", "assign"} /\ iteration < km.max_iter) =>
            km_call.shift < km.tol

\* C13: every call of fit ends, after at most max_iter rounds, and the loop is
\* left as soon as the largest shift between the previous and the new
\* centroids is below tol
C13_FitTerminates == [](C13_RoundsBounded) /\ <>FitEnded

\* fit has left the loop before max_iter rounds on a shift below tol
C13_Witness ==
    /\ km_pc = "done"
    /\ km_call.op = "update"
    /\ km.impl = "clustering"
    /\ iteration < km.max_iter
    /\ km_call.shift < km.tol
    /\ Len(km.X) > 1

\* C14 as stated: predict reports a point as known exactly when its confidence
\* is equal to or above the threshold, and as novel when it is below
C14_Original ==
    km_call.op = "predict" =>
        (km_call.out.is_known <=> km_call.out.confidence >= km_call.threshold)

\* C14, what predict does: a point is known exactly when its confidence is
\* strictly above the threshold
C14_KnownStrictlyAbove ==
    km_call.op = "predict" =>
        /\ km_call.out.confidence = ExpNeg(dist(km_call.x, centroids[km_call.out.labels]))
        /\ \A k \in DOMAIN centroids :
              dist(km_call.x, centroids[km_call.out.labels]) <= dist(km_call.x, centroids[k])
        /\ km_call.out.is_known <=> km_call.out.confidence > km_call.threshold

\* a point that lies on a centroid, with threshold 1.0, is reported as novel
C14_AtThreshold ==
    /\ km_call.op = "predict"
    /\ km_call.out.confidence = km_call.threshold
    /\ ~km_call.out.is_known

C16_Original ==
    /\ km_pc # "raised"
    /\ km_pc # "new" => Len(centroids) = km.n_clusters

\* C16, what fit does: it keeps min(n, n_clusters) centroids, and the initial
\* ones are rows of the batch
C16_CentroidCount ==
    /\ km_pc # "new" => Len(centroids) = Min(Len(km.X), km.n_clusters)
    /\ km_call.op = "fit" => \A k \in DOMAIN centroids : \E i \in DOMAIN km.X : centroids[k] = km.X[i]
    /\ km_pc = "raised" => km.impl = "clustering" /\ Len(km.X) < km.n_clusters

\* fit on fewer points than clusters: clustering.py has raised, discovery.py
\* has returned with fewer centroids than clusters
C16_FewerPoints ==
    /\ Len(km.X) < km.n_clusters
    /\ \/ km_pc = "raised"
       \/ km_pc = "done" /\ Len(centroids) < km.n_clusters

(***************************************************************************)
(* Properties of the hierarchy extractor                                   *)
(***************************************************************************)
\* the centroid indices of a list of (index, norm) pairs
IndicesOf(list) == { list[j][1] : j \in 1..Len(list) }

\* the norms of a list of (index, norm) pairs
NormsOf(list) == { list[j][2] : j \in 1..Len(list) }

DistinctNorms == \A i, j \in 1..Len(hier_call.norms) : hier_call.norms[i] = hier_call.norms[j] => i = j

\* C17: macro and micro are disjoint and hold every centroid index exactly
\* once, so their counts sum to n; four centroids with pairwise different norms
\* (0.05 < 0.08 < 0.5 < 0.8 in the test) give two non-empty lists
C17_DepthPartition ==
    hier_call.op = "categorize_depth" =>
        /\ IndicesOf(hier_call.macro) \cap IndicesOf(hier_call.micro) = {}
        /\ IndicesOf(hier_call.macro) \cup IndicesOf(hier_call.micro) = 0..(Len(hier_centroids) - 1)
        /\ Cardinality(IndicesOf(hier_call.macro)) = Len(hier_call.macro)
        /\ Cardinality(IndicesOf(hier_call.micro)) = Len(hier_call.micro)
        /\ Len(hier_call.macro) + Len(hier_call.micro) = Len(hier_centroids)
        /\ \A j \in 1..Len(hier_call.macro) : hier_call.macro[j][2] = hier_call.norms[hier_call.macro[j][1] + 1]
        /\ \A j \in 1..Len(hier_call.micro) : hier_call.micro[j][2] = hier_call.norms[hier_call.micro[j][1] + 1]
        /\ (Len(hier_centroids) = 4 /\ DistinctNorms) =>
              hier_call.macro # <<>> /\ hier_call.micro # <<>>

\* categorize_depth on four centroids of four different depths
C17_Witness ==
    /\ hier_call.op = "categorize_depth"
    /\ Len(hier_centroids) = 4
    /\ DistinctNorms
    /\ hier_call.norms[1] < hier_call.norms[2]
    /\ hier_call.norms[2] < hier_call.norms[3]
    /\ hier_call.norms[3] < hier_call.norms[4]
    /\ Len(hier_call.macro) = 1
    /\ Len(hier_call.micro) = 3

C9_SingleInstance ==
    /\ Cardinality(instances) <= 1
    /\ (instances # {} => \A t \in Callers : pc[t] \notin {"construct", "constructing"})
    /\ \A t \in Callers : received[t] \subseteq instances
    /\ \A t, u \in Callers : \A a \in received[t] : \A b \in received[u] : a = b

\* a caller that passed the unlocked check, waited for the lock and found the
\* instance another caller had built meanwhile, while that caller already has it
C9_Witness ==
    \E t, u \in Callers :
        /\ t # u
        /\ pc[t] = "release" /\ local[t] = NoClassifier
        /\ received[u] # {}
        /\ g_classifier \in instances

(***************************************************************************)
(* Properties of HyperbolicProjector                                       *)
(***************************************************************************)
\* C10: the point forward() emits has a Euclidean norm strictly below the clip
\* factor, hence below 1; features whose norm exceeds the clip factor are
\* rescaled to it (within the rounding of one division) before expmap0, and
\* features within it are left unchanged.
C10_OutputInsideClip ==
    proj_call.op = "forward" =>
        /\ Norm(proj_call.z) < clip_factor
        /\ Norm(proj_call.z) < Q
        /\ proj_call.z = expmap0(proj_call.h_clipped)
        /\ (Norm(proj_call.h) <= clip_factor => proj_call.h_clipped = proj_call.h)
        /\ (Norm(proj_call.h) > clip_factor =>
                /\ Norm(proj_call.h_clipped) <= clip_factor
                /\ Norm(proj_call.h_clipped) >= clip_factor - 2)

\* features far outside the clip factor were rescaled and projected
C10_Witness ==
    /\ proj_call.op = "forward"
    /\ Norm(proj_call.h) > 2 * Q
    /\ proj_call.h_clipped # proj_call.h
    /\ Norm(proj_call.z) < clip_factor

(***************************************************************************)
(* Properties of the knowledge distiller                                   *)
(***************************************************************************)
\* C19: distill_step and distill_epoch change only the parameters of the student
\* projector and the student classifier: after any sequence of them the parameters of
\* the teacher projector and of the teacher classifier equal their initial values
C19_TeacherFrozen ==
    \A m \in TeacherModules : kd_params[m] = kd_initial[m]

\* an epoch of two steps has moved both student modules and neither teacher module
C19_Witness ==
    /\ kd_call.op = "distill_epoch"
    /\ kd_call.num_batches = 2
    /\ \A m \in optimizer_params : kd_params[m] # kd_initial[m]
    /\ \A m \in TeacherModules : kd_params[m] = kd_initial[m]

(***************************************************************************)
(* Properties of the training loops                                        *)
(***************************************************************************)
\* the training step has just run optimizer.step()
Stepped == tr_ops # <<>> /\ tr_ops[Len(tr_ops)] = "step"

\* the step ran clip_grad_norm_ after loss.backward() and before optimizer.step()
ClippedBetween ==
    \E i, j, k \in DOMAIN tr_ops :
        /\ i < j /\ j < k
        /\ tr_ops[i] = "backward"
        /\ tr_ops[j] = "clip_grad_norm_"
        /\ tr_ops[k] = "step"

\* C20: in every training step, of HypCDTrainer.train_step and of each batch of
\* HypCDTrainingPipeline.train_epoch, the gradient norm is clipped to 1.0 after the
\* backward pass and before optimizer.step()
C20_Original ==
    Stepped => ClippedBetween /\ tr_applied <= max_norm

\* C20, as the code has it: train_step clips between backward() and step(), and its
\* optimizer never sees a gradient norm above 1.0
C20_TrainStepClips ==
    Stepped /\ tr_regime = "train_step" => ClippedBetween /\ tr_applied <= max_norm

\* a batch of train_epoch whose optimizer.step() has used a gradient of norm 3.0,
\* with no clip_grad_norm_ in the step
C20_Unclipped ==
    /\ tr_regime = "train_epoch"
    /\ Stepped
    /\ ~ClippedBetween
    /\ tr_applied > max_norm

(***************************************************************************)
(* Properties of the checkpoint manager                                    *)
(***************************************************************************)
\* every save() so far was for another epoch
DistinctEpochs ==
    \A i, j \in DOMAIN ckpt_metadata : i # j => ckpt_metadata[i] # ckpt_metadata[j]

\* the epochs of the n most recent save() calls
LastSaved(n) ==
    { ckpt_metadata[i] : i \in (Len(ckpt_metadata) - Min(n, Len(ckpt_metadata)) + 1) ..
                               Len(ckpt_metadata) }

EpochsOnDisk == { f.epoch : f \in ckpt_files }

\* C22: after any sequence of save() calls with distinct epochs the directory holds at
\* most keep_last_n checkpoint_epoch_*.pt files, the most recently saved ones, for every
\* keep_last_n, and latest_checkpoint.pt is still there
C22_Original ==
    DistinctEpochs =>
        /\ Cardinality(ckpt_files) <= ckpt_keep
        /\ EpochsOnDisk = LastSaved(ckpt_keep)
        /\ (ckpt_metadata # <<>> => ckpt_latest # <<>>)

\* C22, as the code has it: with keep_last_n >= 1 the directory holds
\* min(keep_last_n, number of saves) files and no removed file is newer by st_mtime than a
\* kept one; they are the most recently saved ones when every save moved the clock;
\* with keep_last_n = 0 no file is ever removed
C22_KeepsNewestByMtime ==
    DistinctEpochs =>
        /\ ckpt_keep >= 1 =>
              /\ Cardinality(ckpt_files) = Min(ckpt_keep, Len(ckpt_metadata))
              /\ (ckpt_clock = Len(ckpt_metadata) => EpochsOnDisk = LastSaved(ckpt_keep))
        /\ ckpt_keep = 0 => Cardinality(ckpt_files) = Len(ckpt_metadata)
        /\ (ckpt_metadata # <<>> => ckpt_latest # <<>>)

\* keep_last_n = 0 and three saves: all three files are still in the directory
C22_NothingRemoved ==
    /\ ckpt_keep = 0
    /\ DistinctEpochs
    /\ Len(ckpt_metadata) = 3
    /\ Cardinality(ckpt_files) = 3

\* keep_last_n = 1 and two saves with the same st_mtime: the file of the first save is
\* kept and the file of the second one is gone
C22_OlderKept ==
    /\ ckpt_keep = 1
    /\ DistinctEpochs
    /\ Len(ckpt_metadata) = 2
    /\ EpochsOnDisk = { ckpt_metadata[1] }

\* the checkpoint the most recent save() has written
LastCheckpoint ==
    Checkpoint(ckpt_metadata[Len(ckpt_metadata)],
               TrainingState(Len(ckpt_metadata))[1], TrainingState(Len(ckpt_metadata))[2])

\* C23: after a save, load() without a path and get_latest_checkpoint() give the
\* checkpoint of the most recent save (epoch, model state, optimizer state); before any
\* save get_latest_checkpoint() returns None and load() raises FileNotFoundError
C23_LatestIsLastSave ==
    /\ (ckpt_call.op = "load" /\ ckpt_call.path = None) =>
          IF ckpt_metadata = <<>> THEN ckpt_call.raised
          ELSE ~ckpt_call.raised /\ ckpt_call.checkpoint = <<LastCheckpoint>>
    /\ ckpt_call.op = "get_latest_checkpoint" =>
          IF ckpt_metadata = <<>> THEN ckpt_call.path = None
          ELSE ckpt_call.path = "latest_checkpoint.pt" /\ ckpt_latest = <<LastCheckpoint>>

\* load() after three saves, of which the last was for an earlier epoch than the second
C23_Witness ==
    /\ ckpt_call.op = "load"
    /\ ckpt_call.path = None
    /\ Len(ckpt_metadata) = 3
    /\ ckpt_metadata[3] < ckpt_metadata[2]
    /\ ~ckpt_call.raised
    /\ ckpt_call.checkpoint = <<LastCheckpoint>>

\* load() on a fresh directory has raised FileNotFoundError
C23_RaisedBeforeSave ==
    /\ ckpt_call.op = "load"
    /\ ckpt_call.path = None
    /\ ckpt_metadata = <<>>
    /\ ckpt_call.raised

(***************************************************************************)
(* Properties of the training pipeline                                     *)
(***************************************************************************)
\* train() has returned after at least one epoch
TrainReturned == pl_pc = "returned" /\ pl_history # <<>>

\* the last epoch train() has trained
LastTrainedEpoch == Len(pl_history) - 1

\* C21: checkpoints are created periodically and on completion: when train() returns,
\* after all epochs or after an early stop, latest_checkpoint.pt holds the last epoch
\* that was trained, and every epoch that is a multiple of checkpoint_frequency has been
\* saved
C21_Original ==
    TrainReturned =>
        /\ ckpt_latest # <<>>
        /\ ckpt_latest[1].epoch = LastTrainedEpoch
        /\ \A e \in 0..LastTrainedEpoch :
              e % pl_config.checkpoint_frequency = 0 => e \in Range(ckpt_metadata)

\* C21, as the code has it: the epochs saved are the multiples of checkpoint_frequency
\* and the epochs whose validation accuracy was the best so far, and
\* latest_checkpoint.pt holds the last of them
C21_PeriodicOrBest ==
    TrainReturned =>
        /\ ckpt_latest # <<>>
        /\ ckpt_latest[1].epoch = ckpt_metadata[Len(ckpt_metadata)]
        /\ \A e \in 0..LastTrainedEpoch :
              e % pl_config.checkpoint_frequency = 0 => e \in Range(ckpt_metadata)

\* train() has returned after all 3 epochs and latest_checkpoint.pt holds epoch 0
C21_LastEpochNotSaved ==
    /\ TrainReturned
    /\ pl_config.epochs = 3
    /\ Len(pl_history) = 3
    /\ ckpt_latest[1].epoch = 0

\* the validation accuracy has improved in every epoch trained
ImprovingEveryEpoch ==
    /\ \A i \in DOMAIN pl_history : pl_history[i] # <<>>
    /\ \A i \in 1..(Len(pl_history) - 1) :
          pl_history[i][1].accuracy < pl_history[i + 1][1].accuracy

\* the validation accuracy has not improved within the last 10 logged epochs
Stagnant ==
    /\ Len(pl_history) >= Patience
    /\ \A i \in (Len(pl_history) - Patience + 1)..Len(pl_history) : pl_history[i] # <<>>
    /\ \A i \in (Len(pl_history) - Patience + 2)..Len(pl_history) :
          pl_history[i][1].accuracy <= pl_history[Len(pl_history) - Patience + 1][1].accuracy

\* C24: early stopping fires only on stagnation: train() stops before config.epochs
\* exactly when at least 10 epochs are logged and the validation accuracy has not
\* improved within the last 10 of them; while the accuracy improves every epoch, training
\* runs all config.epochs epochs
C24_Original ==
    /\ pl_pc \in { "finish", "returned" } =>
          (Len(pl_history) < pl_config.epochs <=> Stagnant)
    /\ (pl_pc \in { "finish", "returned", "raised" } /\ ImprovingEveryEpoch) =>
          pl_pc # "raised" /\ Len(pl_history) = pl_config.epochs

\* C24, as the code has it: train() stops, or raises, once 10 epochs are logged, whatever
\* the validation accuracy did
C24_StopsAtPatience ==
    /\ Len(pl_history) <= Patience
    /\ pl_pc \in { "finish", "returned", "raised" } =>
          Len(pl_history) = Min(pl_config.epochs, Patience)
    /\ pl_pc = "raised" =>
          \E i \in DOMAIN pl_history : pl_history[i] = <<>>

\* train() has returned after 10 of 11 epochs although the accuracy improved in each
C24_StoppedWhileImproving ==
    /\ pl_pc = "returned"
    /\ pl_config.epochs = MaxTrainEpochs
    /\ Len(pl_history) = Patience
    /\ ImprovingEveryEpoch

\* should_stop_early has raised AttributeError on an epoch that was not validated
C24_RaisedWithoutValidation ==
    /\ pl_pc = "raised"
    /\ Len(pl_history) = Patience
    /\ pl_history[Patience] = <<>>

(***************************************************************************)
(* Properties of the training jobs of the API                              *)
(***************************************************************************)
\* the request has been answered and the Celery task of the job has finished
JobSettled(j) == ep_pc[j] = "returned" /\ task_pc[j] = "done"

\* C25: a training job started through POST /training/train never stays at "queued"
\* once its Celery task has finished: in every interleaving of the endpoint's writes
\* with the task's writes the final status is "completed" or "failed"
C25_Original ==
    \A j \in Jobs : JobSettled(j) => tj_status[j] \in { "completed", "failed" }

\* C25, as the code has it: when the request is answered and the task has finished, the
\* status is the one written last, "completed", "failed", "running" or "queued", and
\* never "pending"
C25_FinalStatuses ==
    \A j \in Jobs : JobSettled(j) => tj_status[j] \in { "completed", "failed", "running", "queued" }

\* the task has written "completed" and the endpoint's later update has left "queued"
C25_StuckAtQueued ==
    \E j \in Jobs :
        /\ JobSettled(j)
        /\ task_retries[j] = 0
        /\ tj_status[j] = "queued"

(***************************************************************************)
(* Properties of the polling worker                                        *)
(***************************************************************************)
\* C26: with any number of workers polling at once, each pending job is claimed by at
\* most one worker: train_model runs for a job only in the worker whose conditional
\* update returned a row, and a worker that loses the claim skips the job
C26_ClaimedOnce ==
    \A j \in PendingJobs :
        /\ wj_runs[j] <= 1
        /\ Cardinality({ w \in Workers : w_pc[w] = "train" /\ w_job[w] = j }) <= 1
        /\ \A w \in Workers :
              (w_job[w] = j /\ w_last[w] = "already claimed" /\ w_pc[w] = "poll")
                  => wj_status[j] # "pending"

\* two workers have polled the same job: one runs train_model, the other has skipped it
C26_Witness ==
    \E v, w \in Workers :
        /\ v # w
        /\ w_job[v] = w_job[w]
        /\ w_pc[v] = "train"
        /\ w_pc[w] = "poll"
        /\ w_last[w] = "already claimed"
        /\ wj_runs[w_job[w]] = 1

\* the status of a job moves along pending -> processing -> completed or failed
StatusMoves ==
    \A j \in PendingJobs :
        \/ wj_status'[j] = wj_status[j]
        \/ wj_status[j] = None /\ wj_status'[j] = "pending"
        \/ wj_status[j] = "pending" /\ wj_status'[j] = "processing"
        \/ wj_status[j] = "processing" /\ wj_status'[j] \in { "completed", "failed" }

\* a failed job has the error text in its logs, a completed job the summary
LogsMatch ==
    \A j \in PendingJobs :
        /\ wj_status[j] = "failed" => wj_logs[j] = "str(e)"
        /\ wj_status[j] = "completed" => wj_logs[j] = "summary"

\* C27: the status of a job only moves pending -> processing -> completed or failed:
\* every job a worker has claimed is eventually "completed" or "failed" with the error
\* text in logs; it never stays "processing" and never returns to "pending"
C27_Original ==
    /\ [][StatusMoves]_vars
    /\ []LogsMatch
    /\ \A j \in PendingJobs :
          (wj_status[j] = "processing") ~> (wj_status[j] \in { "completed", "failed" })

\* what the worker keeps: the status never moves backwards and the logs match the
\* status, while a claimed job is settled only if the last update does not raise
C27_StatusNeverBack == [][StatusMoves]_vars /\ []LogsMatch

\* a job is "processing" and no worker is running it: no poll selects it again
C27_StuckProcessing ==
    \E j \in PendingJobs :
        /\ wj_status[j] = "processing"
        /\ wj_runs[j] = 1
        /\ \A w \in Workers : w_pc[w] = "poll"
        /\ \E w \in Workers : w_job[w] = j /\ w_last[w] = "loop error"

(***************************************************************************)
(* Properties of discover_categories                                       *)
(***************************************************************************)
\* the fits of discover_categories end by the convergence test, as with max_iter = 100
FitsConverged == (dc_pc # "idle" /\ km_pc = "done") => km_call.shift < km.tol

\* the rows predict() gave to cluster k
Members(k) == { i \in 1..Len(dc_labels) : dc_labels[i] = k }

\* the descriptors are those of clusters 0..n_clusters-1 and partition the texts
Partitioned ==
    /\ Len(dc_discovered) = dc_call.n_clusters
    /\ \A k \in 1..Len(dc_discovered) :
          /\ dc_discovered[k].cluster_id = k - 1
          /\ dc_discovered[k].count = Cardinality(Members(k))
          /\ Len(dc_discovered[k].sample_texts) <= MaxSamples
          /\ \A s \in 1..Len(dc_discovered[k].sample_texts) :
                \E i \in Members(k) : dc_call.texts[i] = dc_discovered[k].sample_texts[s]
    /\ Len(dc_labels) = Len(dc_call.texts)
    /\ \A i \in 1..Len(dc_labels) : dc_labels[i] \in 1..dc_call.n_clusters
    /\ SumSeq([k \in 1..Len(dc_discovered) |-> dc_discovered[k].count]) = Len(dc_call.texts)

\* C28: discover_categories(texts, n_clusters) returns exactly n_clusters descriptors
\* with cluster_id 0..n_clusters-1 that partition the input: every text is counted in
\* exactly one cluster, the counts sum to len(texts), and sample_texts holds at most 5
\* texts, all of them members of the cluster
C28_Original ==
    /\ dc_pc # "raised"
    /\ dc_pc = "returned" => Partitioned

\* what the code keeps: a call that returns has partitioned the texts, and a call
\* returns exactly when there are at least n_clusters texts
C28_PartitionWhenReturned ==
    /\ dc_pc = "returned" => (Partitioned /\ Len(dc_call.texts) >= dc_call.n_clusters)
    /\ dc_pc = "raised" => Len(dc_call.texts) < dc_call.n_clusters

\* a call with fewer texts than clusters has raised the IndexError of fit
C28_RaisedWithFewTexts ==
    /\ dc_pc = "raised"
    /\ km_call.raised
    /\ Len(dc_call.texts) = 1
    /\ dc_call.n_clusters = 2

\* a call has returned a cluster of more than five texts with five sample texts
C28_FiveSamples ==
    /\ dc_pc = "returned"
    /\ \E k \in 1..Len(dc_discovered) :
          /\ dc_discovered[k].count > MaxSamples
          /\ Len(dc_discovered[k].sample_texts) = MaxSamples

\* C29: every descriptor carries a finite confidence in [0,1], also a cluster with
\* zero members, which is reported without error and without a NaN confidence
C29_Original ==
    dc_pc = "returned" =>
        \A k \in 1..Len(dc_discovered) :
            /\ ~dc_discovered[k].confidence.nan
            /\ dc_discovered[k].confidence.value \in 0..One

\* what the code keeps: the confidence of a cluster with members is in [0,1], and the
\* confidence of a cluster without members is nan
C29_NaNExactlyWhenEmpty ==
    dc_pc = "returned" =>
        \A k \in 1..Len(dc_discovered) :
            /\ dc_discovered[k].confidence.nan <=> dc_discovered[k].count = 0
            /\ dc_discovered[k].confidence.value \in 0..One

\* a call has returned a cluster with count 0 and confidence nan
C29_EmptyClusterNaN ==
    /\ dc_pc = "returned"
    /\ Len(dc_call.texts) >= dc_call.n_clusters
    /\ \E k \in 1..Len(dc_discovered) :
          /\ dc_discovered[k].count = 0
          /\ dc_discovered[k].confidence.nan

(***************************************************************************)
(* Properties of get_classifier when the constructor raises                *)
(***************************************************************************)
\* while the error is handled the global is None and the failing thread holds the lock
FailureState ==
    \A t \in Callers :
        pc[t] = "except" => (g_classifier = NoClassifier /\ classifier_lock = t)

\* the error reaches the caller: nothing is returned, the global stays None, the lock
\* is free
FailureStep ==
    \A t \in Callers :
        (pc[t] = "except" /\ pc'[t] = "idle") =>
            /\ raised'[t] = raised[t] + 1
            /\ received'[t] = received[t]
            /\ g_classifier' = NoClassifier
            /\ classifier_lock' = 0

\* what a call returns is an instance a constructor run has returned
NoBrokenInstance ==
    \A t \in Callers : received[t] \subseteq instances /\ NoClassifier \notin received[t]

\* C30: when the construction inside get_classifier() raises, the exception reaches
\* that caller, the singleton stays None and the lock is released, so that a later or
\* waiting call gets the lock and constructs again: no call waits for ever and no call
\* returns a broken instance
C30_FailureLeavesRetry ==
    /\ [](FailureState /\ NoBrokenInstance)
    /\ [][FailureStep]_vars
    /\ \A t \in Callers : (pc[t] = "acquire") ~> (pc[t] = "check2")

\* one call has raised, the constructor has run a second time and a call has returned
\* the instance of that run
C30_Witness ==
    /\ \E t \in Callers : raised[t] = 1
    /\ runs = 2
    /\ \E u \in Callers : received[u] = {2}

=============================================================================
